---- MODULE Spec2Model ----
(***************************************************************************)
(* A model of the trace loader (TraceParser), the viewer's queries and     *)
(* selection state (TraceViewer) and the application glue (App) of         *)
(* perfetto-to-llm.  Times are integers: one model tick stands for any     *)
(* fixed number of microseconds; the code only adds, subtracts and         *)
(* compares the timestamps it reads.                                       *)
(***************************************************************************)
EXTENDS Integers, Sequences, FiniteSets, TLC

VARIABLES
    file,           \* the payload the user offers to loadTraceFile
    rnd,            \* the outcomes Math.random() gives createDemoTrace
    gesture,        \* the two places <<x, y>> the pointer visits: [start, end]
    reads,          \* the file reads loadTraceFile started, in start order:
                    \*   [file, done], done once the read has completed
    parser,         \* TraceParser: tracks, slices, metadata, timeRange
    traceData,      \* App.traceData: << >> for null, <<dataset>> otherwise
    status,         \* App status line: "ready", "loaded", "demo", "error"
    tracks,         \* TraceViewer.tracks
    slices,         \* TraceViewer.slices
    timeRange,      \* TraceViewer.timeRange
    viewStart,      \* TraceViewer.viewStart
    viewEnd,        \* TraceViewer.viewEnd
    selectedSlices, \* TraceViewer.selectedSlices (a set of slice ids)
    hiddenTracks,   \* TraceViewer.hiddenTracks (a set of track ids)
    llmOutput,      \* ids of the slices the last updateLLMOutput handed to the exporter
    cull,           \* the last findVisibleSlices call: << >> or <<[trackId, viewStart, viewEnd, result]>>
    lastOp,         \* the handler that ran last
    zoom,           \* TraceViewer.zoom
    hoveredSlice,   \* TraceViewer.hoveredSlice: << >> for null, else <<slice>>
    clickedSlice,   \* TraceViewer.clickedSlice: << >> for null, else <<slice>>
    interactionMode,\* TraceViewer.interactionMode: "select" or "pan"
    isSelecting,    \* TraceViewer.isSelecting
    isPanning,      \* TraceViewer.isPanning
    dragStartX,     \* TraceViewer.dragStartX (dragStartY is written and never read)
    panStartView,   \* TraceViewer.panStartView
    selectionStart, \* TraceViewer.selectionStart, <<x, y>>
    selectionEnd,   \* TraceViewer.selectionEnd, <<x, y>>
    markers,        \* the selection markers and time bar the last render() drew
    redraws,        \* render() calls since the last display frame: 0, 1, or
                    \* 2 for two or more
    probe           \* the last hit test or rectangle query: << >> or <<[...]>>

dragVars == <<interactionMode, isSelecting, isPanning, dragStartX, panStartView,
              selectionStart, selectionEnd>>

inputs == <<file, rnd, gesture, reads>>

vars == <<inputs, parser, traceData, status, tracks, slices, timeRange,
          viewStart, viewEnd, selectedSlices, hiddenTracks, llmOutput, cull,
          lastOp, zoom, hoveredSlice, clickedSlice, dragVars, markers, redraws,
          probe>>

----------------------------------------------------------------------------
(* Bounds of the model. *)

MaxEvents == 3      \* events (or marker lines) in a generated payload
MaxViewEvents == 2  \* events in a payload of the culling specification
MaxDemoSlices == 1  \* top-level slices generated per demo track
MaxReads == 2       \* file loads started in one behaviour

(* Program constants. *)

Infinity == 1000000000      \* stands for JavaScript's Infinity
DefaultViewEnd == 1000000   \* the viewer's initial timeRange.end
Tids == {1, 2}              \* thread ids of generated events
Pids == {1, 2}              \* pid fields of generated marker payloads
Names == <<"A", "B", "C", "D", "E", "F", "G", "H">>

Max(a, b) == IF a >= b THEN a ELSE b
Min(a, b) == IF a <= b THEN a ELSE b

----------------------------------------------------------------------------
(* Slices, tracks, datasets. *)

NewTrack(id, tid, pid) ==
    [id |-> id, tid |-> tid, pid |-> pid, slices |-> << >>, maxDepth |-> 0]

NewSlice(id, trackId, name, startTime, duration, endTime) ==
    [id |-> id, trackId |-> trackId, name |-> name, startTime |-> startTime,
     duration |-> duration, endTime |-> endTime, depth |-> 0]

EmptyRange == [start |-> Infinity, end |-> -Infinity]

NewParser == [tracks |-> << >>, slices |-> << >>, metadata |-> {},
              timeRange |-> EmptyRange]

(* The index of the track with the given key, 0 when trackMap has none. *)
TrackIndex(trks, tid, pid) ==
    IF \E i \in 1 .. Len(trks) : trks[i].tid = tid /\ trks[i].pid = pid
    THEN CHOOSE i \in 1 .. Len(trks) : trks[i].tid = tid /\ trks[i].pid = pid
    ELSE 0

(* trackMap after the lookup-or-create of one event. *)
EnsureTrack(trks, tid, pid) ==
    IF TrackIndex(trks, tid, pid) = 0
    THEN Append(trks, NewTrack(Len(trks), tid, pid))
    ELSE trks

(* track.slices.push(slice) *)
PushSlice(trks, i, slice) ==
    [trks EXCEPT ![i].slices = Append(@, slice)]

----------------------------------------------------------------------------
(* TraceParser.calculateSliceDepths *)

(* A comparator that looks at startTime alone. *)
CompareByStartTime(a, b) == a.startTime - b.startTime

(* The sort comparator: negative when a goes before b. *)
CompareSlices(a, b) ==
    IF a.startTime # b.startTime
    THEN a.startTime - b.startTime
    ELSE b.duration - a.duration

(* Array.prototype.sort is stable: x goes after every element that does not
   compare greater than it. *)
RECURSIVE InsertSorted(_, _)
InsertSorted(s, x) ==
    IF s = << >> THEN <<x>>
    ELSE IF CompareSlices(s[Len(s)], x) <= 0 THEN Append(s, x)
    ELSE Append(InsertSorted(SubSeq(s, 1, Len(s) - 1), x), s[Len(s)])

RECURSIVE SortSlices(_)
SortSlices(s) ==
    IF s = << >> THEN << >>
    ELSE InsertSorted(SortSlices(SubSeq(s, 1, Len(s) - 1)), s[Len(s)])

(* Faulty variants of IsFinished: an active slice is dropped when it ends before the
   current slice ends; touching slices count as overlapping. *)
IsFinishedBeforeEnd(active, slice) == active.endTime <= slice.endTime

IsFinishedStrictly(active, slice) == active.endTime < slice.startTime

(* An active slice is finished when the current slice starts. *)
IsFinished(active, slice) == active.endTime <= slice.startTime

(* The first depth no active slice uses. *)
FirstFreeDepth(usedDepths) ==
    CHOOSE d \in 0 .. Cardinality(usedDepths) :
        d \notin usedDepths /\ \A e \in 0 .. d - 1 : e \in usedDepths

RECURSIVE AssignDepths(_, _, _, _)
AssignDepths(sl, i, activeSlices, maxDepth) ==
    IF i > Len(sl) THEN [slices |-> sl, maxDepth |-> maxDepth]
    ELSE LET slice == sl[i]
             running == SelectSeq(activeSlices, LAMBDA a : ~IsFinished(a, slice))
             usedDepths == {running[j].depth : j \in 1 .. Len(running)}
             depth == FirstFreeDepth(usedDepths)
             placed == [slice EXCEPT !.depth = depth]
         IN AssignDepths([sl EXCEPT ![i] = placed], i + 1,
                         Append(running, placed), Max(maxDepth, depth + 1))

(* A depth pass that reports the highest depth as the number of lanes. *)
DepthsOfTrackHighest(track) ==
    IF Len(track.slices) = 0
    THEN [track EXCEPT !.maxDepth = 1]
    ELSE LET r == AssignDepths(SortSlices(track.slices), 1, << >>, 0)
         IN [track EXCEPT !.slices = r.slices,
                          !.maxDepth = Max(1, r.maxDepth - 1)]

DepthsOfTrack(track) ==
    IF Len(track.slices) = 0
    THEN [track EXCEPT !.maxDepth = 1]
    ELSE LET r == AssignDepths(SortSlices(track.slices), 1, << >>, 0)
         IN [track EXCEPT !.slices = r.slices, !.maxDepth = Max(1, r.maxDepth)]

calculateSliceDepths(trks) ==
    [i \in 1 .. Len(trks) |-> DepthsOfTrack(trks[i])]

----------------------------------------------------------------------------
(* TraceParser.normalizeTimestamps *)

(* x - offset in JavaScript numbers, where either may be infinite. *)
Minus(x, offset) ==
    IF x = -Infinity \/ offset = Infinity THEN -Infinity
    ELSE IF x = Infinity \/ offset = -Infinity THEN Infinity
    ELSE x - offset

ShiftSlice(s, offset) ==
    [s EXCEPT !.startTime = Minus(@, offset), !.endTime = Minus(@, offset)]

normalizeTimestamps(p) ==
    LET offset == p.timeRange.start
    IN [p EXCEPT
          !.tracks = [i \in 1 .. Len(p.tracks) |->
                        [p.tracks[i] EXCEPT !.slices =
                            [j \in 1 .. Len(p.tracks[i].slices) |->
                                ShiftSlice(p.tracks[i].slices[j], offset)]]],
          !.timeRange = [start |-> 0, end |-> Minus(p.timeRange.end, offset)]]

(* this.slices holds the same objects as the tracks' slices arrays: the
   slice with the given id, as its track now has it. *)
TrackSlices(trks) ==
    UNION {{trks[i].slices[j] : j \in 1 .. Len(trks[i].slices)} : i \in 1 .. Len(trks)}

SlicesById(trks, n) ==
    [k \in 1 .. n |-> CHOOSE s \in TrackSlices(trks) : s.id = k - 1]

(* The dataset a parse returns. *)
Dataset(p) ==
    [tracks |-> p.tracks, slices |-> p.slices, metadata |-> p.metadata,
     timeRange |-> p.timeRange]

----------------------------------------------------------------------------
(* Payloads.  An event is [ph, tid, pid, ts, dur, name]: a JSON trace event
   (pid is the process id, 0 when absent) or one line of marker text (pid is
   the number written in the B|pid|name or E|pid payload; ph "?" is a line
   the grammar does not match). *)

Event(ph, tid, pid, ts, dur, name) ==
    [ph |-> ph, tid |-> tid, pid |-> pid, ts |-> ts, dur |-> dur, name |-> name]

JsonPhases == {"X", "B", "E", "I", "i", "C"}

(* TraceParser.parseJSON: the forEach body for one event. *)
JsonEvent(p, event) ==
    IF event.ph = "M"
    THEN [p EXCEPT !.metadata = @ \cup {event.name}]
    ELSE IF event.ph \notin JsonPhases THEN p
    ELSE LET trks == EnsureTrack(p.tracks, event.tid, event.pid)
             t == TrackIndex(trks, event.tid, event.pid)
             ts == event.ts
             dur == event.dur
         IN IF event.ph \in {"X", "B"}
            THEN LET slice == NewSlice(Len(p.slices), trks[t].id, event.name, ts,
                                       IF event.ph = "X" THEN dur ELSE 0,
                                       IF event.ph = "X" THEN ts + dur ELSE ts)
                 IN [p EXCEPT
                       !.tracks = PushSlice(trks, t, slice),
                       !.slices = Append(@, slice),
                       !.timeRange = [start |-> Min(@.start, ts),
                                      end |-> Max(@.end, ts + dur)]]
            ELSE [p EXCEPT !.tracks = trks]

RECURSIVE JsonEvents(_, _, _)
JsonEvents(p, events, i) ==
    IF i > Len(events) THEN p
    ELSE JsonEvents(JsonEvent(p, events[i]), events, i + 1)

(* The parser's state after depth assignment and normalisation, this.slices
   showing the objects the passes changed through the tracks. *)
Finish(p, normalize) ==
    LET d == [p EXCEPT !.tracks = calculateSliceDepths(p.tracks)]
        n == IF normalize THEN normalizeTimestamps(d) ELSE d
    IN [n EXCEPT !.slices = SlicesById(n.tracks, Len(p.slices))]

parseJSON(events) == Finish(JsonEvents(NewParser, events, 1), TRUE)

----------------------------------------------------------------------------
(* TraceParser.parseSystrace.  The parse state q carries the parser p and
   openSlices, a stack of open begins per <<tid, pid>> key. *)

OpenKeys == Tids \X (Pids \cup {0})

(* A faulty variant of PopOpenSlice: stack.shift(), the oldest open begin. *)
ShiftOpenSlice(stack) ==
    [openSlice |-> stack[1], rest |-> SubSeq(stack, 2, Len(stack))]

(* stack.pop(): the open begin an end marker closes, and the stack left. *)
PopOpenSlice(stack) ==
    [openSlice |-> stack[Len(stack)], rest |-> SubSeq(stack, 1, Len(stack) - 1)]

NoOpenSlices == [k \in OpenKeys |-> << >>]

SystraceLine(q, line) ==
    IF line.ph = "?" THEN q
    ELSE LET trks == EnsureTrack(q.p.tracks, line.tid, line.tid)
             t == TrackIndex(trks, line.tid, line.tid)
             ts == line.ts
             openKey == <<line.tid, line.pid>>
             stack == q.open[openKey]
         IN IF line.ph = "B"
            THEN [p |-> [q.p EXCEPT
                           !.tracks = trks,
                           !.timeRange = [@ EXCEPT !.start = Min(@, ts)]],
                  open |-> [q.open EXCEPT ![openKey] =
                              Append(@, [name |-> line.name, startTime |-> ts,
                                         trackId |-> trks[t].id])]]
            ELSE IF line.ph = "E" /\ Len(stack) > 0
            THEN LET openSlice == PopOpenSlice(stack).openSlice
                     slice == NewSlice(Len(q.p.slices), trks[t].id, openSlice.name,
                                       openSlice.startTime,
                                       ts - openSlice.startTime, ts)
                 IN [p |-> [q.p EXCEPT
                              !.tracks = PushSlice(trks, t, slice),
                              !.slices = Append(@, slice),
                              !.timeRange = [@ EXCEPT !.end = Max(@, ts)]],
                     open |-> [q.open EXCEPT ![openKey] = PopOpenSlice(stack).rest]]
            ELSE [q EXCEPT !.p.tracks = trks]

RECURSIVE SystraceLines(_, _, _)
SystraceLines(q, lines, i) ==
    IF i > Len(lines) THEN q
    ELSE SystraceLines(SystraceLine(q, lines[i]), lines, i + 1)

parseSystrace(lines) ==
    Finish(SystraceLines([p |-> NewParser, open |-> NoOpenSlices], lines, 1).p, TRUE)

----------------------------------------------------------------------------
(* TraceParser.createDemoTrace.  One tick is 5000 microseconds here.  The
   outcomes of Math.random() are the input r: r.start[t] is the first
   currentTime of track t and r.shapes[t][i] gives, for its i-th top-level
   slice, the duration, the number of nested slices asked for (0 when the
   draw is not above 0.6), the nested duration drawn and the two gaps. *)

DemoThreads == <<[pid |-> 0, tid |-> 0], [pid |-> 0, tid |-> 1]>>

NestedOffset == 1       \* 5000: a nested slice starts this far into its parent
NestedMargin == 2       \* 10000: no nested slice starts this close to the end
NestedMinParent == 10   \* 50000: only a longer slice gets nested slices
TotalDuration == 1000   \* 5000000: generation of a track stops past this

RECURSIVE DemoNested(_, _, _, _, _, _, _)
DemoNested(p, t, shape, parentStart, j, nestedTime, parentName) ==
    IF ~(j < shape.nestedCount /\ nestedTime < parentStart + shape.duration - NestedMargin)
    THEN p
    ELSE LET nestedDuration == Min(shape.nestedDuration,
                                   parentStart + shape.duration - nestedTime - NestedOffset)
             nestedSlice == [NewSlice(Len(p.slices), p.tracks[t].id, "nested",
                                      nestedTime, nestedDuration,
                                      nestedTime + nestedDuration)
                             EXCEPT !.depth = 1]
         IN DemoNested([p EXCEPT !.tracks = PushSlice(@, t, nestedSlice),
                                 !.slices = Append(@, nestedSlice)],
                       t, shape, parentStart, j + 1,
                       nestedTime + nestedDuration + shape.nestedGap, parentName)

RECURSIVE DemoSlices(_, _, _, _, _)
DemoSlices(p, t, shapes, i, currentTime) ==
    IF i > Len(shapes) THEN p
    ELSE LET shape == shapes[i]
             slice == NewSlice(Len(p.slices), p.tracks[t].id, "demo", currentTime,
                               shape.duration, currentTime + shape.duration)
             q == [p EXCEPT
                     !.tracks = PushSlice(@, t, slice),
                     !.slices = Append(@, slice),
                     !.timeRange = [start |-> Min(@.start, currentTime),
                                    end |-> Max(@.end, currentTime + shape.duration)]]
             n == IF shape.nestedCount > 0 /\ shape.duration > NestedMinParent
                  THEN DemoNested(q, t, shape, currentTime, 0,
                                  currentTime + NestedOffset, "demo")
                  ELSE q
             next == currentTime + shape.duration + shape.gap
         IN IF next > TotalDuration THEN n
            ELSE DemoSlices(n, t, shapes, i + 1, next)

RECURSIVE DemoTracks(_, _, _)
DemoTracks(p, r, t) ==
    IF t > Len(DemoThreads) THEN p
    ELSE LET q == [p EXCEPT !.tracks =
                      Append(@, NewTrack(t - 1, DemoThreads[t].tid, DemoThreads[t].pid))]
         IN DemoTracks(DemoSlices(q, t, r.shapes[t], 1, r.start[t]), r, t + 1)

createDemoTrace(r) ==
    Finish(DemoTracks([NewParser EXCEPT !.metadata = {"demo"},
                                        !.timeRange = [start |-> 0, end |-> 0]],
                      r, 1),
           FALSE)

----------------------------------------------------------------------------
(* TraceViewer: queries and selection. *)

(* The binary search of findVisibleSlices: the first index (from 0) whose
   slice starts after viewEnd, Len(s) when the search finds none. *)
RECURSIVE LastPossibleIdx(_, _, _, _, _)
LastPossibleIdx(s, viewE, left, right, lastPossibleIdx) ==
    IF left > right THEN lastPossibleIdx
    ELSE LET mid == (left + right) \div 2
         IN IF s[mid + 1].startTime > viewE
            THEN LastPossibleIdx(s, viewE, left, mid - 1, mid)
            ELSE LastPossibleIdx(s, viewE, mid + 1, right, lastPossibleIdx)

(* A scan that starts at the first slice beginning inside the window. *)
ScanFromWindow(s, viewS) ==
    Cardinality({j \in 1 .. Len(s) : s[j].startTime < viewS})

(* The first index the linear scan of findVisibleSlices looks at. *)
ScanFrom(s, viewS) == 0

findVisibleSlices(s, viewS, viewE) ==
    IF Len(s) = 0 THEN << >>
    ELSE LET lastPossibleIdx == LastPossibleIdx(s, viewE, 0, Len(s) - 1, Len(s))
             scanned == SubSeq(s, ScanFrom(s, viewS) + 1, lastPossibleIdx)
         IN SelectSeq(scanned, LAMBDA slice : slice.endTime > viewS)

(* Canvas geometry.  Width is this.width, the width of the canvas container
   in pixels. *)
Width == 16
SliceHeight == 24
TrackPadding == 8
LaneGap == 2

(* xToTime; the pixels the model points at are those where the division is
   exact, in a window with finite ends. *)
xToTime(x) == viewStart + (x * (viewEnd - viewStart)) \div Width

Finite(t) == -Infinity < t /\ t < Infinity

Exact(x) ==
    /\ Finite(viewStart)
    /\ Finite(viewEnd)
    /\ (x * (viewEnd - viewStart)) % Width = 0

TrackHeight(track) ==
    (IF track.maxDepth = 0 THEN 1 ELSE track.maxDepth) * SliceHeight
        + TrackPadding * 2

(* trackY when the loop over this.tracks reaches the i-th track: hidden
   tracks take no room. *)
RECURSIVE TrackY(_)
TrackY(i) ==
    IF i <= 1 THEN 0
    ELSE TrackY(i - 1)
            + (IF tracks[i - 1].id \in hiddenTracks THEN 0
               ELSE TrackHeight(tracks[i - 1]))

SliceY(i, slice) == TrackY(i) + TrackPadding + slice.depth * SliceHeight

(* TraceViewer.findFirstSliceStartingAfter: the binary search for the first
   index whose slice has startTime >= time (0-based, Len(s) for none). *)
RECURSIVE findFirstSliceStartingAfter(_, _, _, _, _)
findFirstSliceStartingAfter(s, time, left, right, result) ==
    IF left > right THEN result
    ELSE LET mid == (left + right) \div 2
         IN IF s[mid + 1].startTime >= time
            THEN findFirstSliceStartingAfter(s, time, left, mid - 1, mid)
            ELSE findFirstSliceStartingAfter(s, time, mid + 1, right, result)

(* The backward scan of getSliceAtPosition from index i (0-based) down to 0;
   foundSlice is << >> for null. *)
RECURSIVE ScanBack(_, _, _, _, _, _, _)
ScanBack(s, t, i, time, y, foundSlice, maxDepth) ==
    IF i < 0 THEN foundSlice
    ELSE LET slice == s[i + 1]
         IN IF slice.endTime < time
            THEN IF foundSlice # << >>
                    /\ time - slice.startTime > 10 * (slice.endTime - slice.startTime)
                 THEN foundSlice
                 ELSE ScanBack(s, t, i - 1, time, y, foundSlice, maxDepth)
            ELSE IF /\ time >= slice.startTime /\ time <= slice.endTime
                    /\ y >= SliceY(t, slice)
                    /\ y < SliceY(t, slice) + SliceHeight - LaneGap
                    /\ slice.depth > maxDepth
                 THEN ScanBack(s, t, i - 1, time, y, <<slice>>, slice.depth)
                 ELSE ScanBack(s, t, i - 1, time, y, foundSlice, maxDepth)

(* A hit test that looks at hidden tracks as well. *)
RECURSIVE HitFromAnyTrack(_, _, _)
HitFromAnyTrack(t, x, y) ==
    IF t > Len(tracks) THEN << >>
    ELSE IF y >= TrackY(t) /\ y < TrackY(t) + TrackHeight(tracks[t])
    THEN LET s == tracks[t].slices
             time == xToTime(x)
             insertIdx == findFirstSliceStartingAfter(s, time, 0, Len(s) - 1, Len(s))
         IN ScanBack(s, t, insertIdx - 1, time, y, << >>, -1)
    ELSE HitFromAnyTrack(t + 1, x, y)

(* TraceViewer.getSliceAtPosition: << >> for null. *)
RECURSIVE HitFrom(_, _, _)
HitFrom(t, x, y) ==
    IF t > Len(tracks) THEN << >>
    ELSE IF tracks[t].id \in hiddenTracks THEN HitFrom(t + 1, x, y)
    ELSE IF y >= TrackY(t) /\ y < TrackY(t) + TrackHeight(tracks[t])
    THEN LET s == tracks[t].slices
             time == xToTime(x)
             insertIdx == findFirstSliceStartingAfter(s, time, 0, Len(s) - 1, Len(s))
         IN ScanBack(s, t, insertIdx - 1, time, y, << >>, -1)
    ELSE HitFrom(t + 1, x, y)

getSliceAtPosition(x, y) == HitFrom(1, x, y)

(* TraceViewer.getSlicesInSelection for the rectangle between two corners. *)
RECURSIVE SelectionFrom(_, _, _, _, _)
SelectionFrom(t, x1, y1, x2, y2) ==
    IF t > Len(tracks) THEN << >>
    ELSE IF tracks[t].id \in hiddenTracks THEN SelectionFrom(t + 1, x1, y1, x2, y2)
    ELSE LET visibleSlices ==
                 findVisibleSlices(tracks[t].slices, xToTime(x1), xToTime(x2))
             here ==
                 IF y2 >= TrackY(t) /\ y1 < TrackY(t) + TrackHeight(tracks[t])
                 THEN SelectSeq(visibleSlices, LAMBDA slice :
                          /\ y2 >= SliceY(t, slice)
                          /\ y1 < SliceY(t, slice) + SliceHeight - LaneGap)
                 ELSE << >>
         IN here \o SelectionFrom(t + 1, x1, y1, x2, y2)

getSlicesInSelection(start, end) ==
    SelectionFrom(1, Min(start[1], end[1]), Min(start[2], end[2]),
                     Max(start[1], end[1]), Max(start[2], end[2]))

IsSelected(slice) == slice.id \in selectedSlices

(* An export filter that looks at the selection alone. *)
IsExportedWhenHidden(slice) == slice.id \in selectedSlices

IsExported(slice) ==
    slice.id \in selectedSlices /\ slice.trackId \notin hiddenTracks

getSelectedSlices == SelectSeq(slices, IsSelected)

getSelectedSlicesForExport == SelectSeq(slices, IsExported)

Ids(s) == [i \in 1 .. Len(s) |-> s[i].id]

(* App.updateLLMOutput: what the exporter is given.  The exporter groups and
   sorts copies of this list, never the arrays of the tracks. *)
updateLLMOutput == Ids(getSelectedSlicesForExport)

----------------------------------------------------------------------------
(* Actions. *)

(* TraceViewer.drawSelectionMarkers and updateSelectionTimeBar, which render()
   calls when selectedSlices is not empty: the span the two marker lines and
   the time bar are computed from, << >> when none is shown. *)
MinStart(s) ==
    CHOOSE t \in {s[j].startTime : j \in 1 .. Len(s)} :
        \A j \in 1 .. Len(s) : t <= s[j].startTime

MaxEnd(s) ==
    CHOOSE t \in {s[j].endTime : j \in 1 .. Len(s)} :
        \A j \in 1 .. Len(s) : t >= s[j].endTime

drawSelectionMarkers ==
    LET selectedSliceArray == SelectSeq(slices, IsSelected)
    IN IF selectedSlices = {} \/ Len(selectedSliceArray) = 0 THEN << >>
       ELSE <<[minStart |-> MinStart(selectedSliceArray),
               maxEnd |-> MaxEnd(selectedSliceArray)]>>

(* TraceViewer.render(): it draws at once, in the handler that calls it. *)
render ==
    /\ markers' = drawSelectionMarkers'
    /\ redraws' = IF redraws = 0 THEN 1 ELSE 2

(* The next display frame begins. *)
Frame ==
    /\ redraws' = 0
    /\ lastOp' = "frame"
    /\ cull' = << >>
    /\ probe' = << >>
    /\ UNCHANGED <<inputs, parser, traceData, status, tracks, slices, timeRange,
                   viewStart, viewEnd, selectedSlices, hiddenTracks, llmOutput,
                   zoom, hoveredSlice, clickedSlice, dragVars, markers>>

(* A loadTrace that installs the dataset and the view and keeps the selected
   ids and the hidden tracks it finds. *)
loadTraceKeepingSelection(data) ==
    /\ tracks' = data.tracks
    /\ slices' = data.slices
    /\ timeRange' = data.timeRange
    /\ viewStart' = data.timeRange.start
    /\ viewEnd' = data.timeRange.end
    /\ zoom' = 1
    /\ hoveredSlice' = << >>
    /\ clickedSlice' = << >>
    /\ UNCHANGED <<selectedSlices, hiddenTracks>>
    /\ render

(* TraceViewer.loadTrace(data), called by both load paths of App. *)
loadTrace(data) ==
    /\ tracks' = data.tracks
    /\ slices' = data.slices
    /\ timeRange' = data.timeRange
    /\ viewStart' = data.timeRange.start
    /\ viewEnd' = data.timeRange.end
    /\ zoom' = 1
    /\ selectedSlices' = {}
    /\ hoveredSlice' = << >>
    /\ clickedSlice' = << >>
    /\ hiddenTracks' = {}
    /\ render

(* App.loadTraceFile with a payload parseFile decodes. *)
Loaded(p) ==
    /\ parser' = p
    /\ traceData' = <<Dataset(parser')>>
    /\ loadTrace(traceData'[1])
    /\ status' = "loaded"
    /\ UNCHANGED <<inputs, llmOutput, dragVars>>
    /\ cull' = << >>
    /\ probe' = << >>

LoadJSON ==
    /\ file.kind = "json"
    /\ Loaded(parseJSON(file.events))
    /\ lastOp' = "loadJSON"

(* JSON.parse throws before the parser resets anything; loadTraceFile
   catches the error and reports it. *)
LoadBadJSON ==
    /\ file.kind = "badjson"
    /\ status' = "error"
    /\ lastOp' = "loadBadJSON"
    /\ cull' = << >>
    /\ probe' = << >>
    /\ UNCHANGED <<inputs, parser, traceData, tracks, slices, timeRange,
                   viewStart, viewEnd, selectedSlices, hiddenTracks, llmOutput,
                   zoom, hoveredSlice, clickedSlice, dragVars, markers, redraws>>

(* A JSON array whose events are followed by null: JSON.parse succeeds,
   parseJSON resets the parser and handles the events, and reading the ph of
   null throws inside forEach.  trackMap is local and this.tracks is
   assigned only after the loop, so the parser is left with no tracks, the
   slices pushed so far and the range they widened; loadTraceFile catches
   the error and reports it. *)
LoadThrowingJSON ==
    /\ file.kind = "throwingjson"
    /\ parser' = [JsonEvents(NewParser, file.events, 1) EXCEPT !.tracks = << >>]
    /\ status' = "error"
    /\ lastOp' = "loadThrowingJSON"
    /\ cull' = << >>
    /\ probe' = << >>
    /\ UNCHANGED <<inputs, traceData, tracks, slices, timeRange,
                   viewStart, viewEnd, selectedSlices, hiddenTracks, llmOutput,
                   zoom, hoveredSlice, clickedSlice, dragVars, markers, redraws>>

LoadSystrace ==
    /\ file.kind = "systrace"
    /\ Loaded(parseSystrace(file.events))
    /\ lastOp' = "loadSystrace"

(* Any other payload goes to parseProtobuf, which returns createDemoTrace(). *)
LoadProtobuf ==
    /\ file.kind = "binary"
    /\ Loaded(createDemoTrace(rnd))
    /\ lastOp' = "loadProtobuf"

(* App.loadTraceFile up to its await: the read of the file is started and
   the handler returns.  Nothing of the app or the viewer changes but the
   status line's "Loading ..." text, which the model does not carry. *)
StartRead(f) ==
    /\ Len(reads) < MaxReads
    /\ reads' = Append(reads, [file |-> f, done |-> FALSE])
    /\ lastOp' = "startRead"
    /\ cull' = << >>
    /\ probe' = << >>
    /\ UNCHANGED <<file, rnd, gesture, parser, traceData, status, tracks, slices,
                   timeRange, viewStart, viewEnd, selectedSlices, hiddenTracks,
                   llmOutput, zoom, hoveredSlice, clickedSlice, dragVars,
                   markers, redraws>>

(* TraceParser.parseFile on a payload it decodes as JSON or marker text. *)
parseFile(f) ==
    IF f.kind = "json" THEN parseJSON(f.events) ELSE parseSystrace(f.events)

(* The read of the i-th started load completes: parseFile parses the bytes
   and, in the microtasks that follow, loadTraceFile resumes after its await,
   assigns traceData and calls viewer.loadTrace.  No other task runs in
   between; which read completes first is the platform's choice. *)
CompleteRead(i) ==
    /\ i \in 1 .. Len(reads)
    /\ ~reads[i].done
    /\ reads' = [reads EXCEPT ![i].done = TRUE]
    /\ parser' = parseFile(reads[i].file)
    /\ traceData' = <<Dataset(parser')>>
    /\ loadTrace(traceData'[1])
    /\ status' = "loaded"
    /\ lastOp' = IF reads[i].file.kind = "json" THEN "loadJSON" ELSE "loadSystrace"
    /\ cull' = << >>
    /\ probe' = << >>
    /\ UNCHANGED <<file, rnd, gesture, llmOutput, dragVars>>

LoadTraceFile ==
    LoadJSON \/ LoadBadJSON \/ LoadThrowingJSON \/ LoadSystrace \/ LoadProtobuf

(* App.loadDemoTrace *)
LoadDemoTrace ==
    /\ parser' = createDemoTrace(rnd)
    /\ traceData' = <<Dataset(parser')>>
    /\ loadTrace(traceData'[1])
    /\ status' = "demo"
    /\ lastOp' = "loadDemo"
    /\ cull' = << >>
    /\ probe' = << >>
    /\ UNCHANGED <<inputs, llmOutput, dragVars>>

(* Every handler below ends in render(); the ones that change the selection
   or the hidden tracks also reach App.updateLLMOutput through their
   callback. *)

ToggleTrackVisibility(trackId) ==
    /\ hiddenTracks' = IF trackId \in hiddenTracks
                       THEN hiddenTracks \ {trackId}
                       ELSE hiddenTracks \cup {trackId}
    /\ lastOp' = "toggleTrackVisibility"
    /\ cull' = << >>
    /\ probe' = << >>
    /\ UNCHANGED <<inputs, parser, traceData, status, tracks, slices, timeRange,
                   viewStart, viewEnd, selectedSlices, zoom, hoveredSlice,
                   clickedSlice, dragVars>>
    /\ render
    /\ llmOutput' = updateLLMOutput'

HideAllTracks ==
    /\ hiddenTracks' = hiddenTracks \cup {tracks[i].id : i \in 1 .. Len(tracks)}
    /\ lastOp' = "hideAllTracks"
    /\ cull' = << >>
    /\ probe' = << >>
    /\ UNCHANGED <<inputs, parser, traceData, status, tracks, slices, timeRange,
                   viewStart, viewEnd, selectedSlices, zoom, hoveredSlice,
                   clickedSlice, dragVars>>
    /\ render
    /\ llmOutput' = updateLLMOutput'

ShowAllTracks ==
    /\ hiddenTracks' = {}
    /\ lastOp' = "showAllTracks"
    /\ cull' = << >>
    /\ probe' = << >>
    /\ UNCHANGED <<inputs, parser, traceData, status, tracks, slices, timeRange,
                   viewStart, viewEnd, selectedSlices, zoom, hoveredSlice,
                   clickedSlice, dragVars>>
    /\ render
    /\ llmOutput' = updateLLMOutput'

(* TraceViewer.selectAll (Ctrl/Cmd+A) *)
selectAll ==
    /\ selectedSlices' = selectedSlices \cup
          {slices[i].id : i \in {j \in 1 .. Len(slices) :
                /\ slices[j].endTime >= viewStart
                /\ slices[j].startTime <= viewEnd
                /\ slices[j].trackId \notin hiddenTracks}}
    /\ UNCHANGED <<tracks, slices, timeRange, viewStart, viewEnd, hiddenTracks,
                   zoom, hoveredSlice, clickedSlice>>
    /\ render
    /\ llmOutput' = updateLLMOutput'

SelectAll ==
    /\ selectAll
    /\ lastOp' = "selectAll"
    /\ cull' = << >>
    /\ probe' = << >>
    /\ UNCHANGED <<inputs, parser, traceData, status, dragVars>>

(* TraceViewer.clearSelection (the Clear button, Escape) *)
clearSelection ==
    /\ selectedSlices' = {}
    /\ clickedSlice' = << >>
    /\ UNCHANGED <<tracks, slices, timeRange, viewStart, viewEnd, hiddenTracks,
                   zoom, hoveredSlice>>
    /\ render
    /\ llmOutput' = updateLLMOutput'

ClearSelection ==
    /\ clearSelection
    /\ lastOp' = "clearSelection"
    /\ cull' = << >>
    /\ probe' = << >>
    /\ UNCHANGED <<inputs, parser, traceData, status, dragVars>>

(* A toggle that leaves the clicked id as the whole selection. *)
ToggleOnly(selected, id) == {id}

(* Ctrl/Cmd+click in handleMouseDown: delete the id if it is there, add it
   if it is not. *)
Toggle(selected, id) ==
    IF id \in selected THEN selected \ {id} ELSE selected \cup {id}

(* A test that looks at the mode alone. *)
IsSelectGestureByMode(shiftKey) == interactionMode = "select"

(* handleMouseDown: "this.interactionMode === 'select' || e.shiftKey". *)
IsSelectGesture(shiftKey) == interactionMode = "select" \/ shiftKey

(* TraceViewer.handleMouseDown *)
MouseDown(x, y, shiftKey, ctrlKey) ==
    LET slice == getSliceAtPosition(x, y)
        onSlice ==
            /\ selectedSlices' = IF ctrlKey THEN Toggle(selectedSlices, slice[1].id)
                                 ELSE {slice[1].id}
            /\ clickedSlice' = slice
            /\ UNCHANGED <<isSelecting, isPanning, panStartView, selectionStart,
                           selectionEnd>>
        startBox ==
            /\ isSelecting' = TRUE
            /\ selectionStart' = <<x, y>>
            /\ selectionEnd' = <<x, y>>
            /\ UNCHANGED <<selectedSlices, clickedSlice, isPanning, panStartView>>
        startPan ==
            /\ isPanning' = TRUE
            /\ panStartView' = viewStart
            /\ UNCHANGED <<selectedSlices, clickedSlice, isSelecting,
                           selectionStart, selectionEnd>>
    IN /\ Exact(x)
       /\ dragStartX' = x
       /\ IF IsSelectGesture(shiftKey)
          THEN IF slice # << >> /\ ~shiftKey THEN onSlice ELSE startBox
          ELSE IF slice # << >> THEN onSlice ELSE startPan
       /\ lastOp' = "mouseDown"
       /\ cull' = << >>
       /\ probe' = <<[op |-> "down", start |-> <<x, y>>, end |-> <<x, y>>,
                      result |-> slice, shiftKey |-> shiftKey,
                      ctrlKey |-> ctrlKey, before |-> selectedSlices]>>
       /\ UNCHANGED <<inputs, parser, traceData, status, tracks, slices,
                      timeRange, viewStart, viewEnd, hiddenTracks, zoom,
                      hoveredSlice, interactionMode>>
       /\ render
       /\ llmOutput' = IF clickedSlice' = slice /\ slice # << >> /\ ~shiftKey
                       THEN updateLLMOutput' ELSE llmOutput

(* TraceViewer.handleMouseMove *)
MouseMove(x, y) ==
    LET slice == getSliceAtPosition(x, y)
        dx == x - dragStartX
        viewDuration == viewEnd - viewStart
        timeDelta == (dx * viewDuration) \div Width
        panned == panStartView - timeDelta
        low == IF panned < timeRange.start THEN timeRange.start ELSE panned
        high == low + viewDuration
    IN /\ Exact(x)
       /\ lastOp' = "mouseMove"
       /\ cull' = << >>
       /\ probe' = << >>
       /\ UNCHANGED <<inputs, parser, traceData, status, tracks, slices,
                      timeRange, selectedSlices, hiddenTracks, llmOutput, zoom,
                      clickedSlice, interactionMode, isSelecting, isPanning,
                      dragStartX, panStartView, selectionStart>>
       /\ IF isSelecting
          THEN /\ selectionEnd' = <<x, y>>
               /\ UNCHANGED <<viewStart, viewEnd, hoveredSlice>>
               /\ render
          ELSE IF isPanning
          THEN /\ (dx * viewDuration) % Width = 0
               /\ viewEnd' = IF high > timeRange.end THEN timeRange.end ELSE high
               /\ viewStart' = IF high > timeRange.end
                                THEN timeRange.end - viewDuration ELSE low
               /\ UNCHANGED <<selectionEnd, hoveredSlice>>
               /\ render
          ELSE /\ hoveredSlice' = slice
               /\ UNCHANGED <<selectionEnd, viewStart, viewEnd>>
               /\ IF slice # hoveredSlice THEN render
                  ELSE UNCHANGED <<markers, redraws>>

(* TraceViewer.handleMouseUp *)
MouseUp(ctrlKey) ==
    LET selected == getSlicesInSelection(selectionStart, selectionEnd)
        ids == {selected[i].id : i \in 1 .. Len(selected)}
    IN /\ isSelecting => Exact(selectionStart[1]) /\ Exact(selectionEnd[1])
       /\ selectedSlices' = IF ~isSelecting THEN selectedSlices
                            ELSE IF ctrlKey THEN selectedSlices \cup ids
                            ELSE ids
       /\ isSelecting' = FALSE
       /\ isPanning' = FALSE
       /\ lastOp' = "mouseUp"
       /\ cull' = << >>
       /\ probe' = IF isSelecting
                   THEN <<[op |-> "up", start |-> selectionStart,
                           end |-> selectionEnd, result |-> selected,
                           shiftKey |-> FALSE, ctrlKey |-> ctrlKey,
                           before |-> selectedSlices]>>
                   ELSE << >>
       /\ UNCHANGED <<inputs, parser, traceData, status, tracks, slices,
                      timeRange, viewStart, viewEnd, hiddenTracks, zoom,
                      hoveredSlice, clickedSlice, interactionMode, dragStartX,
                      panStartView, selectionStart, selectionEnd>>
       /\ render
       /\ llmOutput' = IF isSelecting THEN updateLLMOutput' ELSE llmOutput

(* TraceViewer.handleMouseLeave *)
MouseLeave ==
    /\ hoveredSlice' = << >>
    /\ isPanning' = FALSE
    /\ isSelecting' = FALSE
    /\ lastOp' = "mouseLeave"
    /\ cull' = << >>
    /\ probe' = << >>
    /\ UNCHANGED <<inputs, parser, traceData, status, tracks, slices, timeRange,
                   viewStart, viewEnd, selectedSlices, hiddenTracks, llmOutput,
                   zoom, clickedSlice, interactionMode, dragStartX, panStartView,
                   selectionStart, selectionEnd>>
    /\ render

(* TraceViewer.setMode: the mode buttons, Space, P and S. *)
SetMode(mode) ==
    /\ mode \in {"pan", "select"}
    /\ interactionMode' = mode
    /\ lastOp' = "setMode"
    /\ cull' = << >>
    /\ probe' = << >>
    /\ UNCHANGED <<inputs, parser, traceData, status, tracks, slices, timeRange,
                   viewStart, viewEnd, selectedSlices, hiddenTracks, llmOutput,
                   zoom, hoveredSlice, clickedSlice, isSelecting, isPanning,
                   dragStartX, panStartView, selectionStart, selectionEnd,
                   markers, redraws>>

(* handleKeyDown, Escape: clearSelection() and setMode('select'). *)
KeyEscape ==
    /\ clearSelection
    /\ interactionMode' = "select"
    /\ lastOp' = "keyEscape"
    /\ cull' = << >>
    /\ probe' = << >>
    /\ UNCHANGED <<inputs, parser, traceData, status, isSelecting, isPanning,
                   dragStartX, panStartView, selectionStart, selectionEnd>>

(* JavaScript numbers are doubles: the result of an operation is the nearest
   representable value, ties to even.  The model keeps times on a grid of
   one unit and rounds a quotient the same way (d > 0). *)
RoundDiv(n, d) ==
    LET q == n \div d
        r == n % d
    IN IF 2 * r < d THEN q
       ELSE IF 2 * r > d THEN q + 1
       ELSE IF q % 2 = 0 THEN q ELSE q + 1

(* this.zoom = traceDuration / (viewEnd - viewStart), for the window of the
   next state. *)
ZoomLevel(vs, ve) ==
    IF ve = vs THEN Infinity
    ELSE RoundDiv(timeRange.end - timeRange.start, ve - vs)

(* What the view handlers leave alone. *)
ViewFrame ==
    /\ cull' = << >>
    /\ probe' = << >>
    /\ UNCHANGED <<inputs, parser, traceData, status, tracks, slices, timeRange,
                   selectedSlices, hiddenTracks, llmOutput, hoveredSlice,
                   clickedSlice, dragVars>>

(* TraceViewer.zoomIn *)
ZoomIn ==
    LET center == RoundDiv(viewStart + viewEnd, 2)
        viewDuration == RoundDiv(viewEnd - viewStart, 2)
        vs == center - RoundDiv(viewDuration, 2)
        ve == center + RoundDiv(viewDuration, 2)
    IN /\ Finite(viewStart) /\ Finite(viewEnd)
       /\ viewStart' = vs
       /\ viewEnd' = ve
       /\ zoom' = ZoomLevel(vs, ve)
       /\ lastOp' = "zoomIn"
       /\ ViewFrame
       /\ render

(* TraceViewer.zoomOut *)
ZoomOut ==
    LET center == RoundDiv(viewStart + viewEnd, 2)
        viewDuration == Min((viewEnd - viewStart) * 2,
                            timeRange.end - timeRange.start)
        vs == Max(timeRange.start, center - RoundDiv(viewDuration, 2))
        ve == Min(timeRange.end, center + RoundDiv(viewDuration, 2))
    IN /\ Finite(viewStart) /\ Finite(viewEnd)
       /\ viewStart' = vs
       /\ viewEnd' = ve
       /\ zoom' = ZoomLevel(vs, ve)
       /\ lastOp' = "zoomOut"
       /\ ViewFrame
       /\ render

(* TraceViewer.resetView *)
ResetView ==
    /\ viewStart' = timeRange.start
    /\ viewEnd' = timeRange.end
    /\ zoom' = 1
    /\ lastOp' = "resetView"
    /\ ViewFrame
    /\ render

(* TraceViewer.handleWheel with the pointer at x: a horizontal scroll pans,
   a vertical scroll zooms about the pointer by 1.1 or 0.9.  A window of no
   duration makes the ratio 0 / 0; the model follows the wheel on windows
   that have a duration. *)
Wheel(x, deltaX, deltaY) ==
    LET viewDuration == viewEnd - viewStart
        traceDuration == timeRange.end - timeRange.start
        abs(d) == IF d < 0 THEN -d ELSE d
        panAmount == RoundDiv(deltaX * viewDuration, Width)
        pannedLow == IF viewStart + panAmount < timeRange.start
                     THEN timeRange.start ELSE viewStart + panAmount
        pannedHigh == IF viewStart + panAmount < timeRange.start
                      THEN pannedLow + viewDuration ELSE viewEnd + panAmount
        zoomPoint == xToTime(x)
        newDuration == IF deltaY > 0 THEN RoundDiv(viewDuration * 11, 10)
                       ELSE RoundDiv(viewDuration * 9, 10)
        zoomedLow == zoomPoint
                       - RoundDiv((zoomPoint - viewStart) * newDuration, viewDuration)
        low == IF zoomedLow < timeRange.start THEN timeRange.start ELSE zoomedLow
        high == low + newDuration
        vs == IF abs(deltaX) > abs(deltaY)
              THEN IF pannedHigh > timeRange.end
                   THEN timeRange.end - viewDuration ELSE pannedLow
              ELSE IF newDuration > traceDuration THEN timeRange.start
              ELSE IF high > timeRange.end THEN timeRange.end - newDuration
              ELSE low
        ve == IF abs(deltaX) > abs(deltaY)
              THEN IF pannedHigh > timeRange.end THEN timeRange.end ELSE pannedHigh
              ELSE IF newDuration > traceDuration THEN timeRange.end
              ELSE IF high > timeRange.end THEN timeRange.end
              ELSE high
    IN /\ Exact(x)
       /\ abs(deltaX) > abs(deltaY) \/ viewStart < viewEnd
       /\ viewStart' = vs
       /\ viewEnd' = ve
       /\ zoom' = IF abs(deltaX) > abs(deltaY) THEN zoom ELSE ZoomLevel(vs, ve)
       /\ lastOp' = "wheel"
       /\ ViewFrame
       /\ render

(* TraceViewer.handleDoubleClick *)
DoubleClick(x, y) ==
    LET slice == getSliceAtPosition(x, y)
        padding == RoundDiv(slice[1].duration * 2, 10)
        vs == Max(timeRange.start, slice[1].startTime - padding)
        ve == Min(timeRange.end, slice[1].endTime + padding)
    IN /\ Exact(x)
       /\ lastOp' = "doubleClick"
       /\ ViewFrame
       /\ IF slice # << >>
          THEN /\ viewStart' = vs
               /\ viewEnd' = ve
               /\ zoom' = ZoomLevel(vs, ve)
               /\ render
          ELSE UNCHANGED <<viewStart, viewEnd, zoom, markers, redraws>>

(* The export format is changed, or the export tab is opened. *)
ExportFormatChange ==
    /\ lastOp' = "updateLLMOutput"
    /\ cull' = << >>
    /\ probe' = << >>
    /\ UNCHANGED <<inputs, parser, traceData, status, tracks, slices, timeRange,
                   viewStart, viewEnd, selectedSlices, hiddenTracks, zoom,
                   hoveredSlice, clickedSlice, dragVars, markers, redraws>>
    /\ llmOutput' = updateLLMOutput'

(* LLMExporter.export.  The text returned is kept as the formatter that
   wrote it and the slices it was given; the fixed text has no formatter. *)
NoSlicesText ==
    [formatter |-> "none", slices |-> << >>,
     text |-> "No slices selected. Select slices by clicking or drag-selecting in the trace view."]

Formats == {"structured", "markdown", "json", "analysis"}

(* An export that hands an empty list to the formatter. *)
exportUnguarded(sl, format) ==
    [formatter |-> IF format \in Formats THEN format ELSE "structured",
     slices |-> Ids(sl), text |-> "formatted"]

export(sl, format) ==
    IF Len(sl) = 0 THEN NoSlicesText
    ELSE [formatter |-> IF format \in Formats THEN format ELSE "structured",
          slices |-> Ids(sl), text |-> "formatted"]

(* [...slices].sort((a, b) => b.duration - a.duration): a stable sort, the
   longest first. *)
RECURSIVE ByDurationDesc(_)
ByDurationDesc(sl) ==
    IF Len(sl) = 0 THEN << >>
    ELSE LET i == CHOOSE k \in 1 .. Len(sl) :
                     /\ \A j \in 1 .. Len(sl) : sl[j].duration <= sl[k].duration
                     /\ \A j \in 1 .. k - 1 : sl[j].duration < sl[k].duration
         IN <<sl[i]>> \o ByDurationDesc(SubSeq(sl, 1, i - 1) \o SubSeq(sl, i + 1, Len(sl)))

RECURSIVE SumDurations(_)
SumDurations(sl) ==
    IF Len(sl) = 0 THEN 0 ELSE sl[1].duration + SumDurations(Tail(sl))

TopCount == 5

(* LLMExporter.calculateStats.  nameFrequency is a function on the names
   that occur; avgDuration is rounded to the grid of one unit. *)
calculateStats(sl) ==
    IF Len(sl) = 0
    THEN [uniqueNames |-> 0, avgDuration |-> 0, minDuration |-> 0,
          maxDuration |-> 0, topByDuration |-> << >>, nameFrequency |-> << >>]
    ELSE LET names == {sl[j].name : j \in 1 .. Len(sl)}
             sorted == ByDurationDesc(sl)
         IN [uniqueNames |-> Cardinality(names),
             avgDuration |-> RoundDiv(SumDurations(sl), Len(sl)),
             minDuration |-> sorted[Len(sl)].duration,
             maxDuration |-> sorted[1].duration,
             topByDuration |-> Ids(SubSeq(sorted, 1, Min(TopCount, Len(sl)))),
             nameFrequency |->
                 [n \in names |-> Cardinality({j \in 1 .. Len(sl) : sl[j].name = n})]]

(* App.updateLLMOutput with the format chosen in the export panel: the
   exporter is given the selected slices of the tracks that are shown. *)
Export(format) ==
    /\ lastOp' = "export"
    /\ cull' = << >>
    /\ UNCHANGED <<inputs, parser, traceData, status, tracks, slices, timeRange,
                   viewStart, viewEnd, selectedSlices, hiddenTracks, zoom,
                   hoveredSlice, clickedSlice, dragVars, markers, redraws>>
    /\ llmOutput' = updateLLMOutput'
    /\ probe' = <<[op |-> "export", format |-> format, slices |-> llmOutput',
                   result |-> export(getSelectedSlicesForExport, format)]>>

(* One call of calculateStats on the slices the exporter is given. *)
CalculateStats ==
    /\ lastOp' = "calculateStats"
    /\ cull' = << >>
    /\ probe' = <<[op |-> "stats", slices |-> Ids(getSelectedSlicesForExport),
                   result |-> calculateStats(getSelectedSlicesForExport)]>>
    /\ UNCHANGED <<inputs, parser, traceData, status, tracks, slices, timeRange,
                   viewStart, viewEnd, selectedSlices, hiddenTracks, llmOutput,
                   zoom, hoveredSlice, clickedSlice, dragVars, markers, redraws>>

(* One call of findVisibleSlices on a track that is not hidden, as
   drawSlicesOptimized makes it with the view window and getSlicesInSelection
   with the time span of the dragged rectangle. *)
QueryTimes == 0 .. 4

(* A cull that takes the slices it returns out of the track's array. *)
FindVisibleSlicesSplicing(i, viewS, viewE) ==
    LET result == findVisibleSlices(tracks[i].slices, viewS, viewE)
    IN /\ tracks[i].id \notin hiddenTracks
       /\ viewS <= viewE
       /\ cull' = <<[trackId |-> tracks[i].id, viewStart |-> viewS,
                     viewEnd |-> viewE, result |-> result]>>
       /\ tracks' = [tracks EXCEPT ![i].slices =
                        SelectSeq(tracks[i].slices,
                                  LAMBDA slice :
                                    \A j \in 1 .. Len(result) :
                                        result[j] # slice)]
       /\ lastOp' = "findVisibleSlices"
       /\ probe' = << >>
       /\ UNCHANGED <<inputs, parser, traceData, status, slices, timeRange,
                      viewStart, viewEnd, selectedSlices, hiddenTracks,
                      llmOutput, zoom, hoveredSlice, clickedSlice, dragVars,
                      markers, redraws>>

FindVisibleSlices(i, viewS, viewE) ==
    /\ tracks[i].id \notin hiddenTracks
    /\ viewS <= viewE
    /\ cull' = <<[trackId |-> tracks[i].id, viewStart |-> viewS, viewEnd |-> viewE,
                  result |-> findVisibleSlices(tracks[i].slices, viewS, viewE)]>>
    /\ lastOp' = "findVisibleSlices"
    /\ probe' = << >>
    /\ UNCHANGED <<inputs, parser, traceData, status, tracks, slices, timeRange,
                   viewStart, viewEnd, selectedSlices, hiddenTracks, llmOutput,
                   zoom, hoveredSlice, clickedSlice, dragVars, markers, redraws>>

(* One call of getSliceAtPosition, as the mouse handlers make it. *)
GetSliceAtPosition(x, y) ==
    /\ Exact(x)
    /\ probe' = <<[op |-> "hit", start |-> <<x, y>>, end |-> <<x, y>>,
                   result |-> getSliceAtPosition(x, y)]>>
    /\ lastOp' = "getSliceAtPosition"
    /\ cull' = << >>
    /\ UNCHANGED <<inputs, parser, traceData, status, tracks, slices, timeRange,
                   viewStart, viewEnd, selectedSlices, hiddenTracks, llmOutput,
                   zoom, hoveredSlice, clickedSlice, dragVars, markers, redraws>>

(* One call of getSlicesInSelection, as handleMouseUp makes it for the
   rectangle dragged from start to end. *)
GetSlicesInSelection(start, end) ==
    /\ Exact(start[1])
    /\ Exact(end[1])
    /\ probe' = <<[op |-> "rect", start |-> start, end |-> end,
                   result |-> getSlicesInSelection(start, end)]>>
    /\ lastOp' = "getSlicesInSelection"
    /\ cull' = << >>
    /\ UNCHANGED <<inputs, parser, traceData, status, tracks, slices, timeRange,
                   viewStart, viewEnd, selectedSlices, hiddenTracks, llmOutput,
                   zoom, hoveredSlice, clickedSlice, dragVars, markers, redraws>>

----------------------------------------------------------------------------
(* Inputs. *)

XTimes == 0 .. 2
Durations == -1 .. 2
BeginEndTimes == 0 .. 2
MarkerTimes == 0 .. 1

(* Complete events, on one thread. *)
CompleteShapes ==
    {Event("X", 1, 0, ts, dur, "") : ts \in XTimes, dur \in Durations}

(* Begin and end events. *)
BeginEndShapes ==
    {Event(ph, tid, 0, ts, 0, "") : ph \in {"B", "E"}, tid \in Tids,
                                    ts \in BeginEndTimes}

(* Marker lines  task-tid [cpu] ts: tracing_mark_write: B|pid|name  or  E|pid. *)
MarkerShapes ==
    {Event(ph, tid, pid, ts, 0, "") : ph \in {"B", "E"}, tid \in Tids,
                                      pid \in Pids, ts \in MarkerTimes}

(* The i-th event of a payload is named Names[i]. *)
Named(f) == [i \in DOMAIN f |-> [f[i] EXCEPT !.name = Names[i]]]

(* Thread ids are interchangeable: the first event names thread 1. *)
Canonical(f) == IF DOMAIN f = {} THEN TRUE ELSE f[1].tid = 1

(* file is a payload of at most n events of the given shapes. *)
FileIs(kind, shapes, n) ==
    \E k \in 0 .. n : \E f \in [1 .. k -> shapes] :
        Canonical(f) /\ file = [kind |-> kind, events |-> Named(f)]

(* The concrete scenarios of the specification's section 8. *)
ScenarioBeginEnd ==
    [kind |-> "json",
     events |-> <<Event("B", 1, 0, 0, 0, "A"), Event("B", 1, 0, 10, 0, "B"),
                  Event("E", 1, 0, 20, 0, "C"), Event("E", 1, 0, 30, 0, "D")>>]

ScenarioTouching ==
    [kind |-> "json",
     events |-> <<Event("X", 1, 0, 0, 10, "A"), Event("X", 1, 0, 10, 10, "B")>>]

ScenarioCull ==
    [kind |-> "json",
     events |-> <<Event("X", 1, 0, 4, 1, "A"), Event("X", 1, 0, 0, 1, "B"),
                  Event("X", 2, 0, 1, 2, "C"), Event("X", 1, 0, 0, 5, "D")>>]

ScenarioMarkers ==
    [kind |-> "systrace",
     events |-> <<Event("B", 1, 1, 5, 0, "A"), Event("B", 1, 1, 10, 0, "B"),
                  Event("?", 1, 1, 15, 0, "C"), Event("E", 1, 1, 20, 0, "D"),
                  Event("E", 1, 1, 30, 0, "E")>>]

Scenarios == {ScenarioBeginEnd, ScenarioTouching, ScenarioCull, ScenarioMarkers}

(* Two threads: on the first a slice with two touching slices and a slice
   of no duration nested in it, on the second one slice. *)
ScenarioNested ==
    [kind |-> "json",
     events |-> <<Event("X", 1, 0, 0, 8, "A"), Event("X", 1, 0, 2, 2, "B"),
                  Event("X", 1, 0, 4, 2, "C"), Event("X", 1, 0, 6, 0, "D"),
                  Event("X", 2, 0, 4, 4, "E")>>]

(* Two nested slices on one thread and an end event, which makes a track
   and no slice, on another. *)
ScenarioEmptyTrack ==
    [kind |-> "json",
     events |-> <<Event("X", 1, 0, 0, 2, "A"), Event("X", 1, 0, 0, 1, "B"),
                  Event("E", 2, 0, 1, 0, "C")>>]

BadJsonFile == [kind |-> "badjson", events |-> << >>]
BinaryFile == [kind |-> "binary", events |-> << >>]
ThrowingJsonFile ==
    [kind |-> "throwingjson", events |-> <<Event("X", 1, 0, 5, 2, "A")>>]

DemoStarts == {0, 3}

DemoShape(duration, nestedCount, nestedDuration, gap, nestedGap) ==
    [duration |-> duration, nestedCount |-> nestedCount,
     nestedDuration |-> nestedDuration, gap |-> gap, nestedGap |-> nestedGap]

DemoShapes == {DemoShape(2, 0, 1, 2, 1), DemoShape(12, 2, 1, 2, 1),
               DemoShape(12, 1, 6, 3, 2)}

DemoSeeds ==
    [start : [1 .. Len(DemoThreads) -> DemoStarts],
     shapes : [1 .. Len(DemoThreads) -> [1 .. MaxDemoSlices -> DemoShapes]]]

DefaultSeed ==
    [start |-> [t \in 1 .. Len(DemoThreads) |-> 3],
     shapes |-> [t \in 1 .. Len(DemoThreads) |->
                    [i \in 1 .. MaxDemoSlices |-> DemoShape(12, 2, 1, 2, 1)]]]

(* The state after App and TraceViewer are constructed. *)
Constructed ==
    /\ reads = << >>
    /\ parser = NewParser
    /\ traceData = << >>
    /\ status = "ready"
    /\ tracks = << >>
    /\ slices = << >>
    /\ timeRange = [start |-> 0, end |-> DefaultViewEnd]
    /\ viewStart = 0
    /\ viewEnd = DefaultViewEnd
    /\ selectedSlices = {}
    /\ hiddenTracks = {}
    /\ llmOutput = << >>
    /\ cull = << >>
    /\ lastOp = "init"
    /\ zoom = 1
    /\ hoveredSlice = << >>
    /\ clickedSlice = << >>
    /\ interactionMode = "select"
    /\ isSelecting = FALSE
    /\ isPanning = FALSE
    /\ dragStartX = 0
    /\ panStartView = 0
    /\ selectionStart = <<0, 0>>
    /\ selectionEnd = <<0, 0>>
    /\ markers = << >>
    /\ redraws = 0
    /\ probe = << >>

(* The pixels the model points at: every second column, and of each track
   and lane one row, the gap under a lane and the padding between tracks. *)
MouseXs == {x \in 0 .. Width : x % 2 = 0}
MouseYs == {8, 30, 32, 60, 72}
MousePoints == MouseXs \X MouseYs

(* Where a drag that began at one of these points ends. *)
DragEnds == {0, 8, 16} \X {8, 60}

NoGesture == [start |-> <<0, 0>>, end |-> <<0, 0>>]

(* Loading alone, over every generated payload. *)
InitLoad ==
    /\ \/ /\ \/ FileIs("json", CompleteShapes, MaxEvents)
             \/ FileIs("json", BeginEndShapes, MaxEvents)
             \/ FileIs("systrace", MarkerShapes, MaxEvents)
             \/ file \in Scenarios \cup {ScenarioEmptyTrack, BadJsonFile,
                                       ThrowingJsonFile}
          /\ rnd = DefaultSeed
       \/ /\ file = BinaryFile
          /\ rnd \in DemoSeeds
    /\ gesture = NoGesture
    /\ Constructed

NextLoad == LoadTraceFile \/ LoadDemoTrace

SpecLoad == InitLoad /\ [][NextLoad]_vars

(* Loading and culling, over every generated payload of complete events. *)
InitCull ==
    /\ \/ FileIs("json", CompleteShapes, MaxViewEvents)
       \/ file \in Scenarios \cup {BadJsonFile, ThrowingJsonFile, BinaryFile}
    /\ rnd = DefaultSeed
    /\ gesture = NoGesture
    /\ Constructed

NextCull ==
    \/ LoadTraceFile
    \/ LoadDemoTrace
    \/ \E i \in 1 .. Len(tracks) :
          \E viewS, viewE \in QueryTimes :
              FindVisibleSlices(i, viewS, viewE)

SpecCull == InitCull /\ [][NextCull]_vars

(* The hit test and the rectangular selection, over the payloads of
   complete events and every set of hidden tracks. *)
InitQuery ==
    /\ file \in {ScenarioNested, ScenarioTouching, ScenarioCull}
    /\ rnd = DefaultSeed
    /\ gesture \in [start : MousePoints, end : DragEnds]
    /\ Constructed

NextQuery ==
    \/ LoadJSON
    \/ LoadDemoTrace
    \/ \E i \in 1 .. Len(tracks) : ToggleTrackVisibility(tracks[i].id)
    \/ SelectAll
    \/ \E i \in 1 .. Len(tracks) : FindVisibleSlices(i, viewStart, viewEnd)
    \/ GetSliceAtPosition(gesture.start[1], gesture.start[2])
    \/ GetSlicesInSelection(gesture.start, gesture.end)

SpecQuery == InitQuery /\ [][NextQuery]_vars

(* The mouse and keyboard handlers, on a trace of nested slices; the
   pointer goes to the two places of the gesture. *)
GestureStarts == {<<4, 8>>, <<12, 72>>}
GestureEnds == {<<16, 72>>, <<0, 60>>}

InitMouse ==
    /\ file = ScenarioNested
    /\ rnd = DefaultSeed
    /\ gesture \in [start : GestureStarts, end : GestureEnds]
    /\ Constructed

NextMouse ==
    \/ LoadJSON
    \/ HideAllTracks
    \/ SelectAll
    \/ \E p \in {gesture.start, gesture.end} :
          \E shiftKey, ctrlKey \in BOOLEAN :
              MouseDown(p[1], p[2], shiftKey, ctrlKey)
    \/ \E p \in {gesture.start, gesture.end} : MouseMove(p[1], p[2])
    \/ \E ctrlKey \in BOOLEAN : MouseUp(ctrlKey)
    \/ MouseLeave
    \/ \E mode \in {"pan", "select"} : SetMode(mode)
    \/ KeyEscape

SpecMouse == InitMouse /\ [][NextMouse]_vars

(* Loads whose reads are in flight together. *)
AsyncFiles == Scenarios \cup {ScenarioNested}

InitAsync ==
    /\ file = ScenarioNested
    /\ rnd = DefaultSeed
    /\ gesture = NoGesture
    /\ Constructed

NextAsync ==
    \/ \E f \in AsyncFiles : StartRead(f)
    \/ \E i \in 1 .. Len(reads) : CompleteRead(i)
    \/ SelectAll

SpecAsync == InitAsync /\ [][NextAsync]_vars

(* The queries and the export on degenerate inputs: a track without slices,
   a window off the data, no track shown, nothing selected. *)
EdgeWindows == {<<-4, -1>>, <<0, 1>>, <<30, 40>>}
EdgePoints == {0, 8, 16} \X {8, 72}

InitEdge ==
    /\ file \in {ScenarioEmptyTrack, ScenarioCull}
    /\ rnd = DefaultSeed
    /\ gesture \in [start : EdgePoints, end : EdgePoints]
    /\ Constructed

NextEdge ==
    \/ LoadJSON
    \/ \E i \in 1 .. Len(tracks) : ToggleTrackVisibility(tracks[i].id)
    \/ SelectAll
    \/ \E i \in 1 .. Len(tracks) :
          \E w \in EdgeWindows : FindVisibleSlices(i, w[1], w[2])
    \/ GetSliceAtPosition(gesture.start[1], gesture.start[2])
    \/ GetSlicesInSelection(gesture.start, gesture.end)
    \/ \E format \in Formats \cup {"other"} : Export(format)
    \/ CalculateStats

SpecEdge == InitEdge /\ [][NextEdge]_vars

(* The view handlers: the toolbar's zoom buttons, the wheel, the double
   click and the drag that pans. *)
WheelDeltas == {<<4, 0>>, <<-4, 0>>, <<0, 1>>, <<0, -1>>}
ZoomPoints == {<<0, 60>>, <<8, 8>>, <<16, 72>>}

InitZoom ==
    /\ file = ScenarioNested
    /\ rnd = DefaultSeed
    /\ gesture \in [start : ZoomPoints, end : {<<0, 60>>}]
    /\ Constructed

(* The view handlers are followed on a loaded trace, whose times are few. *)
NextZoom ==
    \/ LoadJSON
    \/ SetMode("pan")
    \/ status = "loaded" /\ ZoomIn
    \/ status = "loaded" /\ ZoomOut
    \/ status = "loaded" /\ ResetView
    \/ status = "loaded"
          /\ \E d \in WheelDeltas : Wheel(gesture.start[1], d[1], d[2])
    \/ status = "loaded" /\ DoubleClick(gesture.start[1], gesture.start[2])
    \/ status = "loaded"
          /\ MouseDown(gesture.start[1], gesture.start[2], FALSE, FALSE)
    \/ status = "loaded" /\ MouseMove(gesture.end[1], gesture.end[2])
    \/ status = "loaded" /\ MouseUp(FALSE)

SpecZoom == InitZoom /\ [][NextZoom]_vars

(* The viewer at work on one payload. *)
Init ==
    /\ file \in Scenarios \cup {BadJsonFile, ThrowingJsonFile, BinaryFile}
    /\ rnd = DefaultSeed
    /\ gesture = NoGesture
    /\ Constructed

Next ==
    \/ LoadTraceFile
    \/ LoadDemoTrace
    \/ \E i \in 1 .. Len(tracks) : ToggleTrackVisibility(tracks[i].id)
    \/ HideAllTracks
    \/ ShowAllTracks
    \/ SelectAll
    \/ ClearSelection
    \/ ExportFormatChange
    \/ \E i \in 1 .. Len(tracks) :
          \E viewS, viewE \in QueryTimes :
              FindVisibleSlices(i, viewS, viewE)
    \/ Frame

Spec == Init /\ [][Next]_vars

----------------------------------------------------------------------------
(* Properties of loading. *)

SeqToSet(s) == {s[i] : i \in 1 .. Len(s)}

HasTrace == traceData # << >>

(* The half-open intervals of two slices share a point. *)
Overlap(a, b) == Max(a.startTime, b.startTime) < Min(a.endTime, b.endTime)

(* C1: on every track, two distinct slices with the same depth have
   half-open intervals [startTime, endTime) that do not overlap (slices that
   only touch may share a depth). *)
C1_NoOverlapSameDepth ==
    \A i \in 1 .. Len(tracks) :
        \A j, k \in 1 .. Len(tracks[i].slices) :
            (j < k /\ tracks[i].slices[j].depth = tracks[i].slices[k].depth)
                => ~Overlap(tracks[i].slices[j], tracks[i].slices[k])

(* A loaded track where two slices of positive duration touch and share a
   depth while a third overlaps one of them. *)
C1_Witness ==
    /\ HasTrace
    /\ \E i \in 1 .. Len(tracks) :
          \E a, b, c \in SeqToSet(tracks[i].slices) :
              /\ a.duration > 0 /\ b.duration > 0
              /\ a.endTime = b.startTime
              /\ a.depth = b.depth
              /\ Overlap(a, c)
              /\ c.depth # a.depth

(* The least number of lanes that keeps overlapping slices apart, 1 for no
   slices. *)
ProperLanes(s, lane) ==
    \A j, k \in 1 .. Len(s) : (j < k /\ Overlap(s[j], s[k])) => lane[j] # lane[k]

Colourable(s, n) == \E lane \in [1 .. Len(s) -> 1 .. n] : ProperLanes(s, lane)

ChromaticNumber(s) ==
    IF Len(s) = 0 THEN 1
    ELSE CHOOSE n \in 1 .. Len(s) :
            Colourable(s, n) /\ \A m \in 1 .. n - 1 : ~Colourable(s, m)

(* The slices stacked where x starts: x and every other slice a with
   a.startTime <= x.startTime < a.endTime. *)
StackedAt(s, x) ==
    1 + Cardinality({j \in 1 .. Len(s) :
            /\ s[j].id # x.id
            /\ s[j].startTime <= x.startTime
            /\ x.startTime < s[j].endTime})

MaxStacked(s) ==
    IF Len(s) = 0 THEN 1
    ELSE CHOOSE n \in 1 .. Len(s) :
            /\ \E j \in 1 .. Len(s) : StackedAt(s, s[j]) = n
            /\ \A j \in 1 .. Len(s) : StackedAt(s, s[j]) <= n

AllPositive(s) == \A j \in 1 .. Len(s) : s[j].duration > 0

NoneNegative(s) == \A j \in 1 .. Len(s) : s[j].duration >= 0

(* C3 as stated: every track's maxDepth is the chromatic number of its
   interval overlap graph, 1 for a track without slices (read here for the
   tracks whose slices all have duration >= 0, as the data model asks). *)
C3_MaxDepthIsChromatic ==
    HasTrace =>
        \A i \in 1 .. Len(tracks) :
            NoneNegative(tracks[i].slices)
                => tracks[i].maxDepth = ChromaticNumber(tracks[i].slices)

(* C3 amended: maxDepth is the largest number of slices stacked where some
   slice starts (1 for no slices); when every slice of the track has a
   positive duration this is the chromatic number of the overlap graph. *)
C3_MaxDepthIsMaxStacked ==
    HasTrace =>
        \A i \in 1 .. Len(tracks) :
            /\ tracks[i].maxDepth = MaxStacked(tracks[i].slices)
            /\ AllPositive(tracks[i].slices)
                  => tracks[i].maxDepth = ChromaticNumber(tracks[i].slices)

(* A track of three slices of positive duration on two lanes, where the last
   slice takes lane 0 again under a slice still running on lane 1. *)
C3_Witness ==
    /\ HasTrace
    /\ \E i \in 1 .. Len(tracks) :
          LET s == tracks[i].slices
          IN /\ Len(s) >= 3
             /\ AllPositive(s)
             /\ tracks[i].maxDepth = 2
             /\ \E j \in 1 .. Len(s) - 1 :
                   /\ s[Len(s)].depth = 0
                   /\ s[j].depth = 1
                   /\ Overlap(s[j], s[Len(s)])

(* The begin/end pairs of stack discipline, with one stack per Key: the i-th
   event b and the j-th event e pair up when e is an end, b a begin with the
   same key before it, every begin between them is closed before e and no
   end between them is left over to close b. *)
CountPhase(ev, Key(_), k, ph, lo, hi) ==
    Cardinality({m \in lo .. hi : ev[m].ph = ph /\ Key(ev[m]) = k})

IsPair(ev, Key(_), b, e) ==
    /\ b < e
    /\ ev[b].ph = "B"
    /\ ev[e].ph = "E"
    /\ Key(ev[b]) = Key(ev[e])
    /\ \A m \in b + 1 .. e - 1 :
          CountPhase(ev, Key, Key(ev[b]), "E", b + 1, m)
              <= CountPhase(ev, Key, Key(ev[b]), "B", b + 1, m)
    /\ CountPhase(ev, Key, Key(ev[b]), "B", b + 1, e - 1)
          = CountPhase(ev, Key, Key(ev[b]), "E", b + 1, e - 1)

Pairs(ev, Key(_)) ==
    {be \in (1 .. Len(ev)) \X (1 .. Len(ev)) : IsPair(ev, Key, be[1], be[2])}

Interval(name, tid, startTime, endTime) ==
    [name |-> name, tid |-> tid, startTime |-> startTime, endTime |-> endTime]

PairIntervals(ev, Key(_)) ==
    {Interval(ev[be[1]].name, ev[be[1]].tid, ev[be[1]].ts, ev[be[2]].ts) :
        be \in Pairs(ev, Key)}

CompleteIntervals(ev) ==
    {Interval(ev[i].name, ev[i].tid, ev[i].ts, ev[i].ts + ev[i].dur) :
        i \in {j \in 1 .. Len(ev) : ev[j].ph = "X"}}

(* The intervals the viewer holds, each with its track's thread. *)
LoadedIntervals ==
    {Interval(slices[i].name, tracks[slices[i].trackId + 1].tid,
              slices[i].startTime, slices[i].endTime) : i \in 1 .. Len(slices)}

(* A set of intervals with its earliest start moved to 0. *)
Relative(S) ==
    IF S = {} THEN {}
    ELSE LET first == CHOOSE t \in {x.startTime : x \in S} :
                         \A x \in S : t <= x.startTime
         IN {[x EXCEPT !.startTime = @ - first, !.endTime = @ - first] : x \in S}

TrackKey(event) == <<event.pid, event.tid>>
ThreadKey(event) == event.tid
OpenKey(event) == <<event.tid, event.pid>>

(* C5: JSON begin and end events follow stack discipline per track, so that
   B@0("A"), B@10("B"), E@20, E@30 give A [0,30) at depth 0, B [10,20) at
   depth 1 and maxDepth 2. *)
C5_JsonStackDiscipline ==
    lastOp = "loadJSON" =>
        /\ Relative(LoadedIntervals)
              = Relative(PairIntervals(file.events, TrackKey)
                         \cup CompleteIntervals(file.events))
        /\ file = ScenarioBeginEnd =>
              /\ Len(slices) = 2
              /\ Len(tracks) = 1
              /\ tracks[1].maxDepth = 2
              /\ \E a, b \in SeqToSet(tracks[1].slices) :
                    /\ a.name = "A" /\ a.startTime = 0 /\ a.endTime = 30 /\ a.depth = 0
                    /\ b.name = "B" /\ b.startTime = 10 /\ b.endTime = 20 /\ b.depth = 1

(* C6 as stated: in marker text every end marker closes the most recently
   opened still-open begin marker of its track, and the slice runs from the
   begin's timestamp to the end's (times taken relative to the earliest
   slice, as normalisation shifts them all alike). *)
C6_MarkerStackPerTrack ==
    lastOp = "loadSystrace" =>
        Relative(LoadedIntervals) = Relative(PairIntervals(file.events, ThreadKey))

(* C6 amended: every end marker closes the most recently opened still-open
   begin marker of its track that carries the same pid field; the slice has
   the begin's and the end's timestamps, each less the earliest begin
   marker's timestamp; no begin is closed by an end before it. *)
EarliestBegin(ev) ==
    CHOOSE t \in {ev[i].ts : i \in {j \in 1 .. Len(ev) : ev[j].ph = "B"}} :
        \A i \in 1 .. Len(ev) : ev[i].ph = "B" => t <= ev[i].ts

C6_MarkerStackPerTrackAndPid ==
    lastOp = "loadSystrace" =>
        LoadedIntervals =
            {[x EXCEPT !.startTime = @ - EarliestBegin(file.events),
                       !.endTime = @ - EarliestBegin(file.events)] :
                x \in PairIntervals(file.events, OpenKey)}

(* Marker text where an end closes the inner of two open begins of one track
   and pid, and a begin of another pid stays open. *)
C6_Witness ==
    /\ lastOp = "loadSystrace"
    /\ \E b1, b2, e \in 1 .. Len(file.events) :
          /\ b1 < b2
          /\ file.events[b1].ph = "B"
          /\ OpenKey(file.events[b1]) = OpenKey(file.events[b2])
          /\ IsPair(file.events, OpenKey, b2, e)
    /\ Len(slices) = 1

(* The names of a payload's begin and end events. *)
BeginEndNames(ev) ==
    {ev[i].name : i \in {j \in 1 .. Len(ev) : ev[j].ph \in {"B", "E"}}}

(* C7: in both formats an unmatched begin and an end without an open begin
   produce no slice and no error: the slices made from begin/end events are
   as many as the matched pairs. *)
C7_UnmatchedDropped ==
    /\ lastOp = "loadJSON" =>
          /\ status # "error"
          /\ Cardinality({i \in 1 .. Len(slices) :
                              slices[i].name \in BeginEndNames(file.events)})
                = Cardinality(Pairs(file.events, TrackKey))
    /\ lastOp = "loadSystrace" =>
          /\ status # "error"
          /\ Len(slices) = Cardinality(Pairs(file.events, OpenKey))

(* C8: after a load that produced a slice, the earliest startTime is 0 and
   timeRange.start is 0. *)
C8_EarliestStartIsZero ==
    (lastOp \in {"loadJSON", "loadSystrace", "loadProtobuf", "loadDemo"}
        /\ Len(slices) > 0)
    => /\ timeRange.start = 0
       /\ \E i \in 1 .. Len(slices) : slices[i].startTime = 0
       /\ \A i \in 1 .. Len(slices) : slices[i].startTime >= 0

(* C10: a payload no supported shape decodes makes the load fail: the status
   reports the error and no dataset, synthetic or other, is installed. *)
C10_UndecodableFails ==
    [][(LoadBadJSON \/ LoadProtobuf)
        => /\ status' = "error"
           /\ parser' = parser
           /\ traceData' = traceData
           /\ tracks' = tracks]_vars

----------------------------------------------------------------------------
(* Properties of the viewer. *)

TrackById(trackId) ==
    tracks[CHOOSE i \in 1 .. Len(tracks) : tracks[i].id = trackId]

(* The brute-force filter over every slice of a track. *)
InWindow(slice, viewS, viewE) ==
    slice.endTime > viewS /\ slice.startTime <= viewE

(* C2: for a track that is not hidden and a window with
   windowStart <= windowEnd, findVisibleSlices returns exactly the slices of
   the track with endTime > windowStart and startTime <= windowEnd: none of
   them is dropped and no other slice is returned. *)
C2_CullIsExact ==
    cull # << >> =>
        LET q == cull[1]
            all == TrackById(q.trackId).slices
        IN /\ SeqToSet(q.result) =
                  {slice \in SeqToSet(all) : InWindow(slice, q.viewStart, q.viewEnd)}
           /\ Len(q.result) = Cardinality(SeqToSet(q.result))

(* A query that keeps a slice starting before the window, and leaves out a
   slice that ended before the window and one that starts after it. *)
C2_Witness ==
    /\ cull # << >>
    /\ LET q == cull[1]
           all == SeqToSet(TrackById(q.trackId).slices)
       IN /\ \E slice \in SeqToSet(q.result) : slice.startTime < q.viewStart - 1
          /\ \E slice \in all : slice.endTime <= q.viewStart
          /\ \E slice \in all : slice.startTime > q.viewEnd
          /\ q.viewStart < q.viewEnd

Sorted(s) ==
    \A j \in 1 .. Len(s) - 1 :
        \/ s[j].startTime < s[j + 1].startTime
        \/ /\ s[j].startTime = s[j + 1].startTime
           /\ s[j].duration >= s[j + 1].duration

(* C4: after a load, and after any later queries, selection edits,
   visibility toggles and exports, the slices of every track are in
   ascending order of startTime, equal startTimes in descending order of
   duration. *)
C4_TracksStaySorted ==
    \A i \in 1 .. Len(tracks) : Sorted(tracks[i].slices)

(* A track whose slices arrived out of order and with a tie on startTime,
   seen after an export while a track is hidden and a slice is selected. *)
C4_Witness ==
    /\ lastOp = "updateLLMOutput"
    /\ selectedSlices # {}
    /\ hiddenTracks # {}
    /\ \E i \in 1 .. Len(tracks) :
          LET s == tracks[i].slices
          IN /\ \E j \in 1 .. Len(s) - 1 :
                   /\ s[j].startTime = s[j + 1].startTime
                   /\ s[j].duration > s[j + 1].duration
                   /\ s[j].id > s[j + 1].id
             /\ \E j \in 1 .. Len(s) - 1 :
                   /\ s[j].startTime < s[j + 1].startTime
                   /\ s[j].id > s[j + 1].id

VisibilityOps == {"toggleTrackVisibility", "hideAllTracks", "showAllTracks"}

(* C9: hiding or showing tracks leaves the set of selected ids as it was;
   afterwards every selected slice is in getSelectedSlices, and it is in
   getSelectedSlicesForExport (and in what the exporter is given) exactly
   when its track is not hidden, so it is out once its track is hidden and
   back once the track is shown again. *)
C9_HiddenSelectionKeptNotExported ==
    [][lastOp' \in VisibilityOps =>
          /\ selectedSlices' = selectedSlices
          /\ \A j \in 1 .. Len(slices) :
                slices[j].id \in selectedSlices =>
                   /\ slices[j] \in SeqToSet(getSelectedSlices')
                   /\ slices[j] \in SeqToSet(getSelectedSlicesForExport')
                        <=> slices[j].trackId \notin hiddenTracks'
                   /\ slices[j].id \in SeqToSet(llmOutput')
                        <=> slices[j].trackId \notin hiddenTracks']_vars

(* A track has just been hidden: one selected slice is on it and another is
   on a track still shown. *)
C9_Witness ==
    /\ lastOp = "toggleTrackVisibility"
    /\ \E j \in 1 .. Len(slices) :
          /\ slices[j].id \in selectedSlices
          /\ slices[j].trackId \in hiddenTracks
          /\ slices[j] \in SeqToSet(getSelectedSlices)
          /\ slices[j] \notin SeqToSet(getSelectedSlicesForExport)
    /\ \E j \in 1 .. Len(slices) :
          /\ slices[j].id \in selectedSlices
          /\ slices[j].trackId \notin hiddenTracks

----------------------------------------------------------------------------
(* Properties of the viewer's handlers. *)

LoadOps == {"loadJSON", "loadSystrace", "loadProtobuf", "loadDemo"}

(* C11: the step that loads a trace installs the new dataset and, in that
   same step, leaves the selected-id set and the hidden-track set empty, no
   hovered and no clicked slice, the view on the whole timeRange and zoom 1;
   so no state right after a load holds a selected id or a hidden track of
   the dataset before it. *)
C11_LoadResetsViewer ==
    [][lastOp' \in LoadOps =>
          /\ traceData' # << >>
          /\ tracks' = traceData'[1].tracks
          /\ slices' = traceData'[1].slices
          /\ timeRange' = traceData'[1].timeRange
          /\ selectedSlices' = {}
          /\ hiddenTracks' = {}
          /\ hoveredSlice' = << >>
          /\ clickedSlice' = << >>
          /\ viewStart' = timeRange'.start
          /\ viewEnd' = timeRange'.end
          /\ zoom' = 1
          /\ markers' = << >>]_vars

(* A trace has just been loaded over one whose slices were selected: the
   export text still lists them, the selection is empty. *)
C11_Witness ==
    /\ lastOp \in LoadOps
    /\ llmOutput # << >>
    /\ slices # << >>
    /\ selectedSlices = {}
    /\ hiddenTracks = {}

(* The handlers that edit the selection, the hidden tracks or the view. *)
MutatingOps ==
    {"toggleTrackVisibility", "hideAllTracks", "showAllTracks", "selectAll",
     "clearSelection"}

(* C12: when a mutating operation follows another with no display frame
   between them, the two have caused at most one redraw. *)
C12_OneRedrawPerFrame ==
    [][(lastOp \in MutatingOps /\ lastOp' \in MutatingOps) => redraws' <= 1]_vars

(* The tracks (by index) that are shown and whose vertical extent holds y. *)
TracksAt(y) ==
    {t \in 1 .. Len(tracks) :
        /\ tracks[t].id \notin hiddenTracks
        /\ y >= TrackY(t)
        /\ y < TrackY(t) + TrackHeight(tracks[t])}

(* The lane row of a slice, as it is drawn, holds y. *)
InLaneRow(t, slice, y) ==
    /\ y >= SliceY(t, slice)
    /\ y < SliceY(t, slice) + SliceHeight - LaneGap

(* The slices of track t that hold the time and whose lane row holds y. *)
HitCandidates(t, time, y) ==
    {slice \in SeqToSet(tracks[t].slices) :
        /\ slice.startTime <= time
        /\ time <= slice.endTime
        /\ InLaneRow(t, slice, y)}

(* C13: the hit test at (x, y) answers, for the shown track that holds y and
   time = xToTime(x), with a slice of the greatest depth among those with
   startTime <= time <= endTime whose lane row holds y, and with no slice
   exactly when the track has no such slice. *)
C13_HitTestFindsTopmost ==
    \A i \in 1 .. Len(probe) :
        probe[i].op = "hit" =>
           LET x == probe[i].start[1]
               y == probe[i].start[2]
               time == xToTime(x)
           IN \A t \in TracksAt(y) :
                 /\ probe[i].result = << >> <=> HitCandidates(t, time, y) = {}
                 /\ probe[i].result # << >> =>
                       /\ probe[i].result[1] \in HitCandidates(t, time, y)
                       /\ \A slice \in HitCandidates(t, time, y) :
                             slice.depth <= probe[i].result[1].depth

(* C14: every slice the rectangular selection returns for the time span
   [timeStart, timeEnd] of the rectangle passes the exact overlap check
   max(timeStart, startTime) < min(timeEnd, endTime); stated for the
   rectangles that span some time. *)
C14_SelectionOverlapsExactly ==
    \A i \in 1 .. Len(probe) :
        probe[i].op = "rect" =>
           LET timeStart == xToTime(Min(probe[i].start[1], probe[i].end[1]))
               timeEnd == xToTime(Max(probe[i].start[1], probe[i].end[1]))
           IN \A j \in 1 .. Len(probe[i].result) :
                 timeStart < timeEnd =>
                 Max(timeStart, probe[i].result[j].startTime)
                    < Min(timeEnd, probe[i].result[j].endTime)

AllTracksHidden == \A t \in 1 .. Len(tracks) : tracks[t].id \in hiddenTracks

SliceOfId(id) == CHOOSE slice \in SeqToSet(slices) : slice.id = id

(* C15: whatever tracks are hidden, no slice of a hidden track is returned
   by the hit test or by the rectangular selection, added to the selection
   by selectAll, or handed to drawing by the viewport cull; with every track
   hidden each of the four yields nothing. *)
C15_HiddenTracksExcluded ==
    [][/\ \A i \in 1 .. Len(probe') :
             /\ \A j \in 1 .. Len(probe'[i].result) :
                   probe'[i].result[j].trackId \notin hiddenTracks'
             /\ AllTracksHidden' => probe'[i].result = << >>
       /\ \A i \in 1 .. Len(cull') : cull'[i].trackId \notin hiddenTracks'
       /\ AllTracksHidden' => cull' = << >>
       /\ lastOp' = "selectAll" =>
             /\ \A id \in selectedSlices' \ selectedSlices :
                   SliceOfId(id).trackId \notin hiddenTracks
             /\ AllTracksHidden => selectedSlices' = selectedSlices]_vars

(* The first track is hidden and the pointer, at a height the first track
   had covered, hits a slice of the track now drawn there. *)
C15_Witness ==
    /\ Len(tracks) > 1
    /\ tracks[1].id \in hiddenTracks
    /\ \E i \in 1 .. Len(probe) :
          /\ probe[i].op = "hit"
          /\ probe[i].start[2] < TrackHeight(tracks[1])
          /\ probe[i].result # << >>
          /\ probe[i].result[1].trackId \notin hiddenTracks
          /\ \E slice \in SeqToSet(tracks[1].slices) :
                /\ slice.startTime < xToTime(probe[i].start[1])
                /\ xToTime(probe[i].start[1]) <= slice.endTime

IdsOf(s) == {s[i].id : i \in 1 .. Len(s)}

(* What selectAll finds: the slices in the view window on tracks shown. *)
VisibleSliceIds ==
    {slices[j].id : j \in {k \in 1 .. Len(slices) :
        /\ slices[k].endTime >= viewStart
        /\ slices[k].startTime <= viewEnd
        /\ slices[k].trackId \notin hiddenTracks}}

(* C16: a rectangular drag completed without Ctrl/Cmd and selectAll both
   replace the selection: afterwards the selected ids are exactly the ids of
   the slices the operation found, so an id selected before and not found
   is no longer selected. *)
C16_ReplaceWholesale ==
    [][/\ (lastOp' = "mouseUp" /\ isSelecting /\ ~probe'[1].ctrlKey) =>
             selectedSlices' =
                IdsOf(getSlicesInSelection(selectionStart, selectionEnd))
       /\ lastOp' = "selectAll" => selectedSlices' = VisibleSliceIds]_vars

(* C17: the selection markers and the selection time bar span the selected
   slices on tracks that are shown, and none are shown when every selected
   slice is on a hidden track. *)
C17_MarkersOmitHidden ==
    LET shown == SelectSeq(slices, IsExported)
    IN markers = IF Len(shown) = 0 THEN << >>
                 ELSE <<[minStart |-> MinStart(shown), maxEnd |-> MaxEnd(shown)]>>

(* The event recorded in probe is a Ctrl/Cmd+click, without Shift, on a
   slice. *)
IsCtrlClick(event) ==
    /\ event.op = "down"
    /\ event.ctrlKey
    /\ ~event.shiftKey
    /\ event.result # << >>

(* C18: in either interaction mode a Ctrl/Cmd+click on a slice, without
   Shift, changes the membership of that slice's id in the selection and of
   no other id; a second Ctrl/Cmd+click on the same slice right after it
   brings back the selection that held before the first. *)
C18_CtrlClickToggles ==
    [][(lastOp' = "mouseDown" /\ IsCtrlClick(probe'[1])) =>
          LET id == probe'[1].result[1].id
          IN /\ (id \in selectedSlices') # (id \in selectedSlices)
             /\ selectedSlices' \ {id} = selectedSlices \ {id}
             /\ (/\ lastOp = "mouseDown"
                 /\ IsCtrlClick(probe[1])
                 /\ probe[1].result[1].id = id)
                   => selectedSlices' = probe[1].before]_vars

(* In pan mode a second Ctrl/Cmd+click has just taken a slice out of the
   selection again, and other slices are still selected. *)
C18_Witness ==
    /\ lastOp = "mouseDown"
    /\ interactionMode = "pan"
    /\ probe # << >>
    /\ IsCtrlClick(probe[1])
    /\ probe[1].result[1].id \in probe[1].before
    /\ probe[1].result[1].id \notin selectedSlices
    /\ selectedSlices # {}

(* What handleMouseDown does on Shift+mouse-down, in either mode and with or
   without a slice under the pointer: a box selection starts at the pointer,
   the selection and the view stay as they are. *)
ShiftDownStartsBox ==
    (lastOp' = "mouseDown" /\ probe'[1].shiftKey) =>
       /\ isSelecting'
       /\ selectionStart' = probe'[1].start
       /\ selectionEnd' = probe'[1].start
       /\ selectedSlices' = selectedSlices
       /\ clickedSlice' = clickedSlice
       /\ viewStart' = viewStart
       /\ viewEnd' = viewEnd

(* C19 as stated: Shift+mouse-down always starts a box selection without
   changing the selection or the view, and the mouse-up that ends the box
   selection sets the selection to the slices of the dragged rectangle. *)
C19_ShiftDragSelects ==
    [][/\ ShiftDownStartsBox
       /\ (lastOp' = "mouseUp" /\ isSelecting) =>
             /\ ~isSelecting'
             /\ selectedSlices' =
                   IdsOf(getSlicesInSelection(selectionStart, selectionEnd))]_vars

(* C19, amended: Shift+mouse-down always starts a box selection without
   changing the selection or the view; the mouse-up that ends the box
   selection sets the selection to the slices of the dragged rectangle when
   Ctrl/Cmd is not held, and adds them to the selection when it is. *)
C19_ShiftDragSelectsOrAdds ==
    [][/\ ShiftDownStartsBox
       /\ (lastOp' = "mouseUp" /\ isSelecting) =>
             LET ids == IdsOf(getSlicesInSelection(selectionStart, selectionEnd))
             IN /\ ~isSelecting'
                /\ selectedSlices' = IF probe'[1].ctrlKey
                                     THEN selectedSlices \cup ids ELSE ids]_vars

(* In pan mode a box dragged from a point on a slice to another point has
   just been released without Ctrl/Cmd: the selection, which was another
   before, is now the slices of the rectangle. *)
C19_Witness ==
    /\ lastOp = "mouseUp"
    /\ interactionMode = "pan"
    /\ probe # << >>
    /\ ~probe[1].ctrlKey
    /\ probe[1].start # probe[1].end
    /\ getSliceAtPosition(probe[1].start[1], probe[1].start[2]) # << >>
    /\ probe[1].result # << >>
    /\ selectedSlices = IdsOf(probe[1].result)
    /\ probe[1].before # selectedSlices
    /\ ~isSelecting

(* C20: every slice a load produces has duration = endTime - startTime and
   duration >= 0, whatever the order of the events and whatever their
   duration fields. *)
C20_DurationIsExtent ==
    \A j \in 1 .. Len(slices) :
        /\ slices[j].duration = slices[j].endTime - slices[j].startTime
        /\ slices[j].duration >= 0

----------------------------------------------------------------------------
(* Further properties of loading. *)

(* C22: on every track, of two slices with the same startTime and different
   durations the longer one has a strictly smaller depth than the shorter. *)
C22_LongerIsOuter ==
    \A t \in 1 .. Len(tracks) :
        \A a, b \in SeqToSet(tracks[t].slices) :
            (a.startTime = b.startTime /\ a.duration > b.duration)
                => a.depth < b.depth

HighestDepth(s) ==
    CHOOSE d \in {s[j].depth : j \in 1 .. Len(s)} :
        \A j \in 1 .. Len(s) : s[j].depth <= d

(* C23: after depth assignment every slice's depth is in [0, maxDepth) of
   its track, maxDepth is max(1, highest assigned depth + 1), and a track
   with no slices has maxDepth 1 and still no slices. *)
C23_DepthWithinMaxDepth ==
    \A t \in 1 .. Len(tracks) :
        LET s == tracks[t].slices
        IN /\ \A j \in 1 .. Len(s) :
                 0 <= s[j].depth /\ s[j].depth < tracks[t].maxDepth
           /\ Len(s) > 0 => tracks[t].maxDepth = Max(1, HighestDepth(s) + 1)
           /\ Len(s) = 0 => tracks[t].maxDepth = 1
           /\ Len(s) = Cardinality({j \in 1 .. Len(slices) :
                                      slices[j].trackId = tracks[t].id})

(* A load has left a track with no slices beside a track whose slices
   reach the last lane of two or more. *)
C23_Witness ==
    /\ \E t \in 1 .. Len(tracks) :
          Len(tracks[t].slices) = 0 /\ tracks[t].maxDepth = 1
    /\ \E t \in 1 .. Len(tracks) :
          /\ tracks[t].maxDepth >= 2
          /\ \E j \in 1 .. Len(tracks[t].slices) :
                tracks[t].slices[j].depth = tracks[t].maxDepth - 1

----------------------------------------------------------------------------
(* Further properties of the viewer. *)

QueryOps == {"findVisibleSlices", "getSliceAtPosition", "getSlicesInSelection"}

(* C24: a viewport cull, a hit test or a rectangular selection, however
   often it is run, leaves the tracks, the fields and the order of every
   slices array, the selected ids, the hidden tracks and the view window as
   they were. *)
C24_QueriesReadOnly ==
    [][lastOp' \in QueryOps =>
          /\ tracks' = tracks
          /\ slices' = slices
          /\ timeRange' = timeRange
          /\ selectedSlices' = selectedSlices
          /\ hiddenTracks' = hiddenTracks
          /\ viewStart' = viewStart
          /\ viewEnd' = viewEnd]_vars

(* A rectangular selection has just returned slices while some ids are
   selected and a track is hidden. *)
C24_Witness ==
    /\ lastOp = "getSlicesInSelection"
    /\ probe # << >>
    /\ probe[1].result # << >>
    /\ selectedSlices # {}
    /\ hiddenTracks # {}

(* C25: once a trace with timeRange.start < timeRange.end is loaded, every
   view handler leaves timeRange.start <= viewStart < viewEnd <=
   timeRange.end. *)
ViewOps == {"zoomIn", "zoomOut", "resetView", "wheel", "doubleClick", "mouseMove"}
C25_ViewWithinRange ==
    (status = "loaded" /\ timeRange.start < timeRange.end /\ lastOp \in ViewOps)
        => /\ timeRange.start <= viewStart
           /\ viewStart < viewEnd
           /\ viewEnd <= timeRange.end
(* C29: after any sequence of mouse-down, mouse-move, mouse-up, mouse-leave
   and mode-change events the viewer is never box-selecting and panning at
   the same time. *)
C29_SelectingExcludesPanning == ~(isSelecting /\ isPanning)
(* C30: a JSON or marker-text input with no slice-producing events loads as
   a dataset with no slices and a finite time range with start 0 and
   end >= start, so the initial view window is finite. *)
C30_EmptyInputFiniteRange ==
    (lastOp \in {"loadJSON", "loadSystrace"} /\ status = "loaded" /\ slices = << >>)
        => /\ timeRange.start = 0
           /\ Finite(timeRange.end)
           /\ timeRange.end >= timeRange.start
           /\ Finite(viewStart)
           /\ Finite(viewEnd)
(* C27: if loading a file fails at any point of parsing, the previous
   dataset stays fully in effect: the app's traceData, the viewer's tracks,
   slices and selection and the parser's tracks and slices used for id
   lookups are those of the previous dataset. *)
FailedLoads == {"loadBadJSON", "loadThrowingJSON"}
C27_FailedLoadKeepsDataset ==
    [][(traceData # << >> /\ lastOp' \in FailedLoads /\ status' = "error")
        => /\ traceData' = traceData
           /\ tracks' = tracks
           /\ slices' = slices
           /\ selectedSlices' = selectedSlices
           /\ parser'.tracks = parser.tracks
           /\ parser'.slices = parser.slices]_vars
(* C28: between user events the export text last generated corresponds to
   the viewer's current selection, and after a new trace is loaded it
   reports an empty selection: it lists no slice of the previous dataset. *)
C28_AppSelectionFollowsViewer ==
    /\ llmOutput = Ids(getSelectedSlicesForExport)
    /\ lastOp \in LoadOps => llmOutput = << >>
(* C26: when file loads are started one after the other and their reads
   complete in either order, the dataset finally installed in the app and
   the viewer is the one of the load that was started last. *)
AllReadsDone == \A i \in 1 .. Len(reads) : reads[i].done
C26_LastStartedLoadWins ==
    (Len(reads) >= 2 /\ AllReadsDone /\ lastOp \in LoadOps)
        => LET last == Dataset(parseFile(reads[Len(reads)].file))
           IN /\ traceData = <<last>>
              /\ tracks = last.tracks
              /\ slices = last.slices
              /\ timeRange = last.timeRange
(* C21: degenerate inputs yield defined, empty results: the cull and the
   rectangular selection on an empty track or on a window entirely outside
   the data return an empty list, the hit test returns no slice, exporting
   an empty selection in any format returns the fixed 'no slices selected'
   text, and the statistics of an empty slice list are zeros and empty
   collections. *)
OffTheData(s, t1, t2) == Len(s) = 0 \/ t2 < MinStart(s) \/ t1 > MaxEnd(s)

ShownTracks == {t \in 1 .. Len(tracks) : tracks[t].id \notin hiddenTracks}

ZeroStats ==
    [uniqueNames |-> 0, avgDuration |-> 0, minDuration |-> 0, maxDuration |-> 0,
     topByDuration |-> << >>, nameFrequency |-> << >>]

C21_DegenerateInputsGiveEmpty ==
    /\ (lastOp = "findVisibleSlices"
          /\ OffTheData(TrackById(cull[1].trackId).slices,
                        cull[1].viewStart, cull[1].viewEnd))
        => cull[1].result = << >>
    /\ (lastOp = "getSlicesInSelection"
          /\ \A t \in ShownTracks :
                OffTheData(tracks[t].slices,
                           xToTime(Min(probe[1].start[1], probe[1].end[1])),
                           xToTime(Max(probe[1].start[1], probe[1].end[1]))))
        => probe[1].result = << >>
    /\ (lastOp = "getSliceAtPosition"
          /\ \A t \in ShownTracks :
                OffTheData(tracks[t].slices, xToTime(probe[1].start[1]),
                           xToTime(probe[1].start[1])))
        => probe[1].result = << >>
    /\ (lastOp = "export" /\ probe[1].slices = << >>)
        => probe[1].result = NoSlicesText
    /\ (lastOp = "calculateStats" /\ probe[1].slices = << >>)
        => probe[1].result = ZeroStats

(* An empty track is the only one shown and has been probed with nothing
   found, while slices of the hidden track are selected and the export
   gives the fixed text. *)
C21_Witness ==
    /\ lastOp = "export"
    /\ selectedSlices # {}
    /\ probe[1].result = NoSlicesText
    /\ \E t \in ShownTracks : tracks[t].slices = << >>
====
